---- MODULE Spec2Model ----
(***************************************************************************)
(* Resilience layer of the trading monolith                                *)
(* (backend/app/utils/resilience.py) and its users.                        *)
(*                                                                         *)
(* Time is a discrete clock `now` counted in ticks.  Every coroutine of    *)
(* the program runs on one asyncio event loop, so the code between two     *)
(* awaits that really suspend is one atomic step.  `async with self._lock` *)
(* never suspends: no holder of the lock awaits while holding it, so the   *)
(* lock is always free when a task reaches it.  A locked section is        *)
(* therefore one action; the only suspension point of CircuitBreaker.call  *)
(* is the await of the wrapped function.                                   *)
(***************************************************************************)
EXTENDS Integers, Sequences, FiniteSets, TLC

(***************************************************************************)
(* Bounds of the model.                                                    *)
(***************************************************************************)
MaxTime == 3
NumCalls == 3
MaxThreshold == 2
MaxTimeout == 2
TicksPerSecond == 4
RLMaxTime == 6
MaxRate == 2
MaxBurst == 2
MaxAttempts == 2
FCMaxTime == 4
MaxTtl == 2
MaxAge == 2
MaxExtracts == 2
MaxBuckets == 3
MaxArticles == 2
MaxUpserts == 3
MaxBatch == 2
MaxDelayAttempt == 4
MaxSamples == 11
MaxHeatArticles == 3
REMaxTime == 2
MaxRateCalls == 4

(***************************************************************************)
(* Program constants.                                                      *)
(***************************************************************************)
ProbationSuccesses == 3

None == "None"
\* an absent time (Optional[datetime] = None)
NoTime == -1
\* an omitted ttl (Optional[int] = None)
NoTtl == -1

Services == {"groq_api", "gecko_terminal"}
Calls == 1..NumCalls

(***************************************************************************)
(* Exception classes raised in the program and their ancestors.            *)
(* httpx.ConnectError and httpx.TimeoutException derive from               *)
(* httpx.HTTPError; the breaker itself raises a plain Exception;           *)
(* asyncio.CancelledError derives from BaseException only.                 *)
(***************************************************************************)
ExceptionClasses ==
    {"Exception", "HTTPError", "ValueError", "CancelledError", "TypeError",
     "AttributeError"}

Ancestors(cls) ==
    CASE cls = "Exception" -> {"Exception", "BaseException"}
      [] cls = "HTTPError" -> {"HTTPError", "Exception", "BaseException"}
      [] cls = "ValueError" -> {"ValueError", "Exception", "BaseException"}
      [] cls = "CancelledError" -> {"CancelledError", "BaseException"}
      [] cls = "TypeError" -> {"TypeError", "Exception", "BaseException"}
      [] cls = "AttributeError" -> {"AttributeError", "Exception", "BaseException"}

\* `except <classes> as e` catches an exception of class cls
Catches(classes, cls) == (Ancestors(cls) \cap classes) # {}

\* faulty variant of BreakerCatches: the breaker tracks every exception
BreakerCatchesAll(classes, cls) == TRUE

\* `except self.config.expected_exception as e` in CircuitBreaker.call
BreakerCatches(classes, cls) == Catches(classes, cls)

AllExceptions == {"Exception"}
HttpxExceptions == {"HTTPError"}

VARIABLES
    now,          \* the clock (datetime.now(), time.time())
    cb_config,    \* CircuitBreaker.config of each service's breaker
    cb_state,     \* CircuitBreaker.state of each service's breaker
    calls,        \* the CircuitBreaker.call invocations in progress
    ev,           \* history: the last step taken on a breaker
    hist,         \* history: counters over the completed calls
    rl,           \* a RateLimiter: rate, burst, tokens, last_refill
    rlh,          \* history: what the limiter has granted
    wcfg,         \* the arguments of a retry_with_fallback decorator
    wr,           \* a call of the decorated function: position and locals
    wrh,          \* history: what that call has done
    fcache,       \* FallbackCache.cache
    max_age,      \* FallbackCache.max_age
    fch,          \* history: the last set of each key, the last operation
    gp,           \* a GeckoTerminalClient and its get_token_price_data call
    gph,          \* history: the attempts and cache reads of that call
    fx,           \* a FeatureExtractor and its extract_features call
    cprobs,       \* the event_probs dictionaries the cache entries refer to
    fxh,          \* history: what the extractors of the process have done
    bstore,       \* the rows of the table buckets
    agh,          \* history: the create_or_update_bucket calls
    adb,          \* the committed rows of the table articles, by url
    ing,          \* the process_token_ingestion tasks: position and locals
    dl,           \* a RetryConfig and the delays calculate_delay returned
    ml,           \* the model store, a bucket and what predict returned
    ht,           \* an article list and the heats calculated from it
    wt,           \* the tasks in RateLimiter.wait_for_token
    reg           \* _rate_limiters and the with_rate_limit call in progress

cbVars == <<cb_config, cb_state, calls, ev, hist>>
rlVars == <<rl, rlh>>
wrVars == <<wcfg, wr, wrh>>
fcVars == <<fcache, max_age, fch>>
gpVars == <<gp, gph>>
fxVars == <<fx, cprobs, fxh>>
agVars == <<bstore, agh>>
inVars == <<adb, ing>>
dbVars == <<agVars, inVars>>
\* the variables of the clients of the resilience layer and of the database
opVars == <<dl, ml, ht, wt, reg>>
xVars == <<gpVars, fxVars, dbVars, opVars>>

(***************************************************************************)
(* CircuitBreakerState()                                                   *)
(***************************************************************************)
CircuitBreakerState ==
    [state |-> "CLOSED", failure_count |-> 0, last_failure_time |-> NoTime,
     next_attempt_time |-> NoTime, success_count |-> 0]

\* history: no breaker recorded
NoBreaker ==
    [state |-> "none", failure_count |-> 0, last_failure_time |-> NoTime,
     next_attempt_time |-> NoTime, success_count |-> 0]

\* faulty variant of Admit: a rejection is counted as a failure
AdmitCountsRejection(b, t) ==
    IF b.state = "OPEN"
    THEN IF t < b.next_attempt_time
         THEN [breaker |-> [b EXCEPT !.failure_count = b.failure_count + 1,
                                     !.last_failure_time = t],
               rejected |-> TRUE]
         ELSE [breaker |-> [b EXCEPT !.state = "HALF_OPEN"], rejected |-> FALSE]
    ELSE [breaker |-> b, rejected |-> FALSE]

(***************************************************************************)
(* The first locked section of CircuitBreaker.call: the admission check.   *)
(* Returns the breaker after the check and whether the call is rejected.   *)
(***************************************************************************)
Admit(b, t) ==
    IF b.state = "OPEN"
    THEN IF t < b.next_attempt_time
         THEN [breaker |-> b, rejected |-> TRUE]
         ELSE [breaker |-> [b EXCEPT !.state = "HALF_OPEN"], rejected |-> FALSE]
    ELSE [breaker |-> b, rejected |-> FALSE]

(***************************************************************************)
(* CircuitBreaker._on_success                                              *)
(***************************************************************************)
OnSuccess(b) ==
    IF b.state = "HALF_OPEN"
    THEN IF b.success_count + 1 >= ProbationSuccesses
         THEN [b EXCEPT !.state = "CLOSED", !.failure_count = 0,
                        !.success_count = 0]
         ELSE [b EXCEPT !.success_count = b.success_count + 1]
    ELSE [b EXCEPT !.failure_count = 0]

\* faulty variant of OnFailure: the breaker opens one failure late
OnFailureLate(b, cfg, t) ==
    LET fc == b.failure_count + 1 IN
    IF fc > cfg.failure_threshold
    THEN [b EXCEPT !.failure_count = fc, !.last_failure_time = t,
                   !.state = "OPEN", !.next_attempt_time = t + cfg.timeout]
    ELSE [b EXCEPT !.failure_count = fc, !.last_failure_time = t]

\* faulty variant of OnFailure: the counter stops at the threshold
OnFailureSaturating(b, cfg, t) ==
    LET fc == IF b.failure_count < cfg.failure_threshold
              THEN b.failure_count + 1 ELSE b.failure_count IN
    IF fc >= cfg.failure_threshold
    THEN [b EXCEPT !.failure_count = fc, !.last_failure_time = t,
                   !.state = "OPEN", !.next_attempt_time = t + cfg.timeout]
    ELSE [b EXCEPT !.failure_count = fc, !.last_failure_time = t]

(***************************************************************************)
(* CircuitBreaker._on_failure                                              *)
(***************************************************************************)
OnFailure(b, cfg, t) ==
    LET fc == b.failure_count + 1 IN
    IF fc >= cfg.failure_threshold
    THEN [b EXCEPT !.failure_count = fc, !.last_failure_time = t,
                   !.state = "OPEN", !.next_attempt_time = t + cfg.timeout]
    ELSE [b EXCEPT !.failure_count = fc, !.last_failure_time = t]

(***************************************************************************)
(* The except clause of CircuitBreaker.call: a tracked exception runs      *)
(* _on_failure, any other exception leaves the breaker alone.  Both are    *)
(* raised to the caller.                                                   *)
(***************************************************************************)
AfterRaise(b, cfg, t, cls) ==
    IF BreakerCatches(cfg.expected_exception, cls)
    THEN OnFailure(b, cfg, t)
    ELSE b

(***************************************************************************)
(* RateLimiter.  time.time() is now / TicksPerSecond seconds; tokens are   *)
(* kept as whole multiples of 1 / TicksPerSecond of a token (the field     *)
(* tokens holds tokens * TicksPerSecond), so that elapsed * rate is exact. *)
(* The rounding of Python floats is not modelled.                          *)
(***************************************************************************)
Min(a, b) == IF a <= b THEN a ELSE b

\* RateLimiter.__init__
NewRateLimiter(rate, burst) ==
    [rate |-> rate, burst |-> burst, tokens |-> burst * TicksPerSecond,
     last_refill |-> 0]

\* faulty variant of Acquire: last_refill is not advanced, elapsed time is refilled
\* again by every call
AcquireNoStamp(l, n, t) ==
    LET filled == Min(l.burst * TicksPerSecond,
                      l.tokens + (t - l.last_refill) * l.rate)
    IN IF filled >= n * TicksPerSecond
       THEN [limiter |-> [l EXCEPT !.tokens = filled - n * TicksPerSecond],
             ok |-> TRUE]
       ELSE [limiter |-> [l EXCEPT !.tokens = filled], ok |-> FALSE]

\* RateLimiter.acquire(n) at time t: the limiter afterwards and the result
Acquire(l, n, t) ==
    LET filled == Min(l.burst * TicksPerSecond,
                      l.tokens + (t - l.last_refill) * l.rate)
    IN IF filled >= n * TicksPerSecond
       THEN [limiter |-> [l EXCEPT !.tokens = filled - n * TicksPerSecond,
                                   !.last_refill = t],
             ok |-> TRUE]
       ELSE [limiter |-> [l EXCEPT !.tokens = filled, !.last_refill = t],
             ok |-> FALSE]

(***************************************************************************)
(* History of the limiter: granted is the number of tokens handed out,     *)
(* emptiedAt the time of the grant that last left the bucket empty (NoTime *)
(* once a later grant left tokens in it), refused whether an acquire was   *)
(* refused since then, last the last acquire (its size, time, result, and  *)
(* emptiedAt and refused as they were before it).                          *)
(***************************************************************************)
NoAcquire == [n |-> 0, at |-> 0, ok |-> FALSE, sinceEmpty |-> NoTime,
              afterRefusal |-> FALSE]

InitRLHist == [granted |-> 0, emptiedAt |-> NoTime, refused |-> FALSE,
               last |-> NoAcquire]

\* the limiter of a specification that does not use it
RLIdle ==
    /\ rl = NewRateLimiter(1, 1)
    /\ rlh = InitRLHist

RLStart ==
    /\ now = 0
    /\ \E rate \in 1..MaxRate, burst \in 1..MaxBurst :
          rl = NewRateLimiter(rate, burst)
    /\ rlh = InitRLHist

\* sizes of the acquire calls
AcquireSizes == {1}

(***************************************************************************)
(* retry_with_fallback.  An exception is a record of its class, of who     *)
(* raised it (the wrapped function, the breaker, the fallback) and of the  *)
(* attempt during which it was raised; a returned value is a record of the *)
(* same shape with class "value".                                          *)
(***************************************************************************)
NoException == [cls |-> None, by |-> None, attempt |-> 0]

\* raise Exception("Circuit breaker is OPEN") in CircuitBreaker.call
BreakerOpenError(a) == [cls |-> "Exception", by |-> "breaker", attempt |-> a]

NoOutcome == [kind |-> "none", val |-> NoException]

\* the decorators of the repository
GroqWrapper ==
    [max_attempts |-> 2, breaker |-> "groq_api", fallback |-> FALSE,
     expected_exceptions |-> AllExceptions, is_async |-> TRUE]
GeckoWrapper ==
    [max_attempts |-> 3, breaker |-> "gecko_terminal", fallback |-> FALSE,
     expected_exceptions |-> HttpxExceptions, is_async |-> TRUE]

\* decorators as retry_with_fallback accepts them
WrapperConfigs ==
    {GroqWrapper, GeckoWrapper} \cup
    [max_attempts : 1..MaxAttempts, breaker : Services \cup {None},
     fallback : BOOLEAN, expected_exceptions : {AllExceptions, HttpxExceptions},
     is_async : BOOLEAN]

\* exceptions the fallback function raises
FallbackExceptions == {"ValueError", "CancelledError"}

IdleWrapper ==
    [pc |-> "idle", attempt |-> 0, last_exception |-> NoException,
     outcome |-> NoOutcome]

(***************************************************************************)
(* History of one call of the wrapper: invocations of the wrapped          *)
(* function, sleeps begun, the outcome of the fallback, whether the loop   *)
(* ran out of attempts, whether the latest attempt was rejected by the     *)
(* breaker, the exception of the latest attempt.                           *)
(***************************************************************************)
InitWRHist ==
    [invocations |-> 0, sleeps |-> 0, fb |-> NoOutcome, exhausted |-> FALSE,
     rejected |-> FALSE, lastExc |-> NoException]

\* the wrapper of a specification that does not use it
WRIdle ==
    /\ wcfg = GroqWrapper
    /\ wr = IdleWrapper
    /\ wrh = InitWRHist

\* the breaker the wrapper goes through: async_wrapper looks it up by name,
\* sync_wrapper never uses one
UsesBreaker == wcfg.is_async /\ wcfg.breaker # None

\* faulty variant of Remember: the first exception is kept
RememberFirst(last_exception, e) ==
    IF last_exception = NoException THEN e ELSE last_exception

\* last_exception = e
Remember(last_exception, e) == e

\* faulty variant of Handle: every exception is retried
HandleRetriesAll(w, h, e) ==
    LET le == Remember(w.last_exception, e) IN
    IF w.attempt = wcfg.max_attempts
    THEN IF wcfg.fallback
         THEN [wr |-> [w EXCEPT !.pc = "fallback", !.last_exception = le],
               wrh |-> [h EXCEPT !.lastExc = e, !.exhausted = TRUE]]
         ELSE [wr |-> [w EXCEPT !.pc = "done", !.last_exception = le,
                                !.outcome = [kind |-> "raise", val |-> le]],
               wrh |-> [h EXCEPT !.lastExc = e, !.exhausted = TRUE]]
    ELSE [wr |-> [w EXCEPT !.pc = "sleep", !.last_exception = le],
          wrh |-> [h EXCEPT !.lastExc = e, !.sleeps = h.sleeps + 1]]

(***************************************************************************)
(* The except clause of the retry loop and what follows it, for exception  *)
(* e raised by the attempt w.attempt: an exception outside                 *)
(* expected_exceptions leaves the wrapper; on the last attempt the loop    *)
(* breaks, to the fallback if there is one, else to raise last_exception;  *)
(* otherwise the wrapper sleeps.                                           *)
(***************************************************************************)
Handle(w, h, e) ==
    IF ~Catches(wcfg.expected_exceptions, e.cls)
    THEN [wr |-> [w EXCEPT !.pc = "done",
                           !.outcome = [kind |-> "raise", val |-> e]],
          wrh |-> [h EXCEPT !.lastExc = e]]
    ELSE LET le == Remember(w.last_exception, e) IN
         IF w.attempt = wcfg.max_attempts
         THEN IF wcfg.fallback
              THEN [wr |-> [w EXCEPT !.pc = "fallback", !.last_exception = le],
                    wrh |-> [h EXCEPT !.lastExc = e, !.exhausted = TRUE]]
              ELSE [wr |-> [w EXCEPT !.pc = "done", !.last_exception = le,
                                     !.outcome = [kind |-> "raise", val |-> le]],
                    wrh |-> [h EXCEPT !.lastExc = e, !.exhausted = TRUE]]
         ELSE [wr |-> [w EXCEPT !.pc = "sleep", !.last_exception = le],
               wrh |-> [h EXCEPT !.lastExc = e, !.sleeps = h.sleeps + 1]]

(***************************************************************************)
(* The start of attempt w.attempt: through the breaker's admission check   *)
(* when there is a breaker, then the wrapped function is awaited.          *)
(***************************************************************************)
StartAttempt(w, h) ==
    LET r == IF UsesBreaker THEN Admit(cb_state[wcfg.breaker], now)
             ELSE [breaker |-> NoBreaker, rejected |-> FALSE]
    IN IF r.rejected
       THEN LET x == Handle(w, [h EXCEPT !.rejected = TRUE],
                            BreakerOpenError(w.attempt))
            IN /\ wr' = x.wr
               /\ wrh' = x.wrh
               /\ UNCHANGED cb_state
       ELSE /\ wr' = [w EXCEPT !.pc = "func"]
            /\ wrh' = [h EXCEPT !.rejected = FALSE,
                                !.invocations = h.invocations + 1]
            /\ cb_state' = IF UsesBreaker
                           THEN [cb_state EXCEPT ![wcfg.breaker] = r.breaker]
                           ELSE cb_state

(***************************************************************************)
(* FallbackCache.  The clock counts seconds here.  The dictionary is a     *)
(* function on Keys whose value NoEntry stands for a key that is not in    *)
(* the dictionary.                                                         *)
(***************************************************************************)
Keys == {"k1", "k2"}
Values == {"v1", "v2"}
Ttls == {NoTtl} \cup (0..MaxTtl)

NoEntry == [value |-> None, expiry |-> NoTime, created |-> NoTime]

EmptyCache == [k \in Keys |-> NoEntry]

\* len(fallback_cache.cache)
CacheSize(cache) == Cardinality({k \in Keys : cache[k] # NoEntry})

\* `ttl or self.max_age`
Lifetime(ttl, maxAge) == IF ttl = NoTtl \/ ttl = 0 THEN maxAge ELSE ttl

\* FallbackCache.set
CacheSet(cache, maxAge, k, v, ttl, t) ==
    [cache EXCEPT ![k] = [value |-> v, expiry |-> t + Lifetime(ttl, maxAge),
                          created |-> t]]

\* faulty variant of CacheGet: an entry is expired from the instant of its expiry
CacheGetStrict(cache, k, t) ==
    IF cache[k] = NoEntry
    THEN [cache |-> cache, result |-> None]
    ELSE IF t >= cache[k].expiry
         THEN [cache |-> [cache EXCEPT ![k] = NoEntry], result |-> None]
         ELSE [cache |-> cache, result |-> cache[k].value]

\* faulty variant of CacheGet: an expired entry is not deleted
CacheGetNoEvict(cache, k, t) ==
    IF cache[k] = NoEntry
    THEN [cache |-> cache, result |-> None]
    ELSE IF t > cache[k].expiry
         THEN [cache |-> cache, result |-> None]
         ELSE [cache |-> cache, result |-> cache[k].value]

\* FallbackCache.get: the dictionary afterwards and the value returned
CacheGet(cache, k, t) ==
    IF cache[k] = NoEntry
    THEN [cache |-> cache, result |-> None]
    ELSE IF t > cache[k].expiry
         THEN [cache |-> [cache EXCEPT ![k] = NoEntry], result |-> None]
         ELSE [cache |-> cache, result |-> cache[k].value]

\* FallbackCache.clear_expired
ClearExpired(cache, t) ==
    [k \in Keys |-> IF cache[k] # NoEntry /\ t > cache[k].expiry
                    THEN NoEntry ELSE cache[k]]

(***************************************************************************)
(* History of the cache: lastSet is, for each key, the time, ttl and value *)
(* of its latest set (NoSet when the key was never set or the cache was    *)
(* cleared since); last is the last operation with its key, its result and *)
(* the dictionary before it.                                               *)
(***************************************************************************)
NoSet == [at |-> NoTime, ttl |-> NoTtl, value |-> None]

NoCacheOp == [op |-> "none", key |-> None, result |-> None, pre |-> EmptyCache]

InitFCHist == [lastSet |-> [k \in Keys |-> NoSet], last |-> NoCacheOp]

\* the cache of a specification that does not use it
FCIdle ==
    /\ fcache = EmptyCache
    /\ max_age = 1
    /\ fch = InitFCHist

(***************************************************************************)
(* GeckoTerminalClient.get_token_price_data and get_ohlcv_data.  One token *)
(* is asked for again and again; predefined tells whether it is one of the *)
(* tokens of the token_pools table of __init__, known whether it is in     *)
(* the table of the present client (auto-discovery adds it).  An OHLCV     *)
(* list is "empty" ([]), "good", or "zero" (two or more candles, the       *)
(* second with close 0.0).                                                 *)
(***************************************************************************)
PriceKey == "k1"
OhlcvKey == "k2"
PriceTtl == 300
OhlcvTtl == 300

OhlcvLists == {"empty", "good", "zero"}

\* `if cached_data:` on what fallback_cache.get returned
Truthy(v) == v # None /\ v # "empty"

IdlePrice(p) == [pc |-> "idle", predefined |-> p, known |-> p, result |-> None]

(***************************************************************************)
(* History of one get_token_price_data call.  live tells of the live       *)
(* attempts made so far (the pool search of auto-discovery, the            *)
(* get_token_pools request, every attempt of the OHLCV wrapper, a          *)
(* rejection by the breaker included): "none" were made, all "failed", or  *)
(* one "succeeded".  readAt is live as it was at the latest get of the     *)
(* price key ("unread" before any), liveAfterRead tells whether a live     *)
(* attempt was made after a get of the price key.  oLive and oReadAt are   *)
(* the same for get_ohlcv_data, its attempts and its key.                  *)
(***************************************************************************)
InitGPHist ==
    [live |-> "none", readAt |-> "unread", liveAfterRead |-> FALSE,
     oLive |-> "none", oReadAt |-> "unread"]

\* the price client of a specification that does not use it
GPIdle ==
    /\ gp = IdlePrice(TRUE)
    /\ gph = InitGPHist

(***************************************************************************)
(* FeatureExtractor.  A probability is a fraction num / den of integers;   *)
(* den = 0 stands for the floats that are no finite number: 1/0 is inf,    *)
(* 0/0 is nan.  The rounding of float division is not modelled.            *)
(***************************************************************************)
EventTypes ==
    {"listing", "partnership", "hack", "depeg", "regulatory", "funding",
     "tech", "market-note", "op-ed"}

Frac(n, d) == [num |-> n, den |-> d]
Zero == Frac(0, 1)
One == Frac(1, 1)
Inf == Frac(1, 0)
NaN == Frac(0, 0)

\* a JSON value that is no number (a string, null, a list)
NotNumber == Frac(0, -1)
\* the key is not in the JSON object
Absent == Frac(0, -2)

\* {event: 0.0 if event != e else 1.0 for event in self.EVENT_TYPES}
OneHot(e) == [k \in EventTypes |-> IF k = e THEN One ELSE Zero]

\* {event: 0.0 for event in self.EVENT_TYPES}
AllZero == [k \in EventTypes |-> Zero]

\* x + y of floats
AddFrac ==
    [x, y \in [num : Int, den : Int] |->
        IF x = NaN \/ y = NaN THEN NaN
        ELSE IF x = Inf \/ y = Inf THEN Inf
        ELSE Frac(x.num * y.den + y.num * x.den, x.den * y.den)]

\* x / y of floats, for y > 0
DivFrac(x, y) ==
    IF x = NaN THEN NaN
    ELSE IF y = Inf THEN (IF x = Inf THEN NaN ELSE Zero)
    ELSE IF x = Inf THEN Inf
    ELSE Frac(x.num * y.den, x.den * y.num)

\* x > 0 of floats
Positive(x) == x = Inf \/ (x.den > 0 /\ x.num > 0)

\* sum(f[k] for k in S)
SumOver(S, f) ==
    LET sum[T \in SUBSET S] ==
            IF T = {} THEN Zero
            ELSE LET k == CHOOSE e \in T : TRUE
                 IN AddFrac[f[k], sum[T \ {k}]]
    IN sum[S]

\* sum(event_probs.values())
SumValues(p) == SumOver(DOMAIN p, p)

(***************************************************************************)
(* The answer of the classifier, parsed: a JSON object is a function from  *)
(* PayloadKeys to its values, Absent for a key that is not in it ("bonus"  *)
(* is a key that is no event type; the event types outside PayloadKeys are *)
(* never in the object).                                                   *)
(***************************************************************************)
PayloadKeys == {"hack", "market-note", "bonus"}
PayloadValues == {Absent, NotNumber, Frac(-1, 1), Zero, One, Inf}
Payloads ==
    {p \in [PayloadKeys -> PayloadValues] : p["bonus"] \in {Absent, One}}

\* answers that are no JSON object: empty text, text without JSON, a JSON list
MalformedAnswers == {"empty", "nojson", "notobject"}

\* the loop over event_probs.items(): a value that is no number or is
\* negative becomes 0.0
ValidProb(v) ==
    IF v = NotNumber \/ (v # Inf /\ v.num < 0) THEN Zero ELSE v

\* missing event types are added with 0.0, keys that are no event type are
\* removed, the values are validated
EventProbsOf(p) ==
    [k \in EventTypes |->
        IF k \in PayloadKeys /\ p[k] # Absent THEN ValidProb(p[k]) ELSE Zero]

\* the normalisation that ends the parsing
Normalise(probs) ==
    LET total == SumValues(probs)
    IN IF Positive(total)
       THEN [k \in EventTypes |-> DivFrac(probs[k], total)]
       ELSE OneHot("market-note")

\* _classify_event_with_retry from the parsed JSON object on
ParsePayload(p) == Normalise(EventProbsOf(p))

\* the event_probs of every answer
ParsedAnswer == [p \in Payloads |-> ParsePayload(p)]

(***************************************************************************)
(* The articles.  "notdict" is a payload that is no mapping (None);        *)
(* "short" has title and content of fewer than 50 characters together and  *)
(* no keyword; "long" has a content of 100 characters or more with the     *)
(* keywords exploit, stolen, price; "notitle" has title None and a content *)
(* of fewer than 100 characters with the keyword stolen.                   *)
(***************************************************************************)
Articles == {"notdict", "short", "long", "notitle"}

\* the articles whose content is hashed by _calculate_novelty
Hashed == {"long"}

\* cache_key of the article's title and content
ClassificationKey(a) == IF a = "short" THEN "k1" ELSE "k2"

ClassificationTtl == 3600

\* the keyword counts of _get_fallback_event_classification
Scores(a) ==
    [k \in EventTypes |->
        IF a = "long" /\ k = "hack" THEN Frac(2, 1)
        ELSE IF a = "long" /\ k = "market-note" THEN One
        ELSE Zero]

\* _get_intelligent_default_classification
IntelligentDefault(a) ==
    IF a = "notitle" THEN OneHot("hack") ELSE OneHot("market-note")

\* ArticleFeatures; the numbers are hundredths.  The sentiment, trust,
\* recency and proof of the articles are those of a neutral text from an
\* unknown site without a publication date and without proof links.
Features(probs, novelty) ==
    [event_probs |-> probs, sentiment_score |-> 0, source_trust |-> 60,
     recency_decay |-> 100, novelty_score |-> novelty, proof_bonus |-> 100,
     final_weight |-> (60 * 100 * novelty * 100) \div 1000000]

\* the ArticleFeatures of the except clause of extract_features
ErrorFeatures ==
    [event_probs |-> AllZero, sentiment_score |-> 0, source_trust |-> 50,
     recency_decay |-> 10, novelty_score |-> 100, proof_bonus |-> 100,
     final_weight |-> 5]

NoFeatures ==
    [event_probs |-> AllZero, sentiment_score |-> -1000, source_trust |-> -1,
     recency_decay |-> -1, novelty_score |-> -1, proof_bonus |-> -1,
     final_weight |-> -1]

\* the keyword counts normalised, market-note when no keyword is found
RuleBased(scores) ==
    LET total == SumValues(scores)
    IN IF Positive(total)
       THEN [k \in EventTypes |-> DivFrac(scores[k], total)]
       ELSE OneHot("market-note")

\* FeatureExtractor()
NewExtractor ==
    [pc |-> "idle", article |-> None, content_hashes |-> {},
     result |-> NoFeatures, raised |-> None]

(***************************************************************************)
(* History of the extractors of the process: calls counts the              *)
(* extract_features calls, seen is the set of hashed contents met since    *)
(* the process began or clear_novelty_cache was last called, repeat tells  *)
(* whether the content of the present call was in seen when the call       *)
(* began, path names the source of the event_probs of the latest result,   *)
(* malformed tells whether the provider's latest answer to the present     *)
(* call was malformed, counted whether the breaker's failure_count grew    *)
(* with that answer.                                                       *)
(***************************************************************************)
InitFXHist ==
    [calls |-> 0, seen |-> {}, repeat |-> FALSE, path |-> None,
     malformed |-> FALSE, counted |-> FALSE]

\* the extractor of a specification that does not use it
FXIdle ==
    /\ fx = NewExtractor
    /\ cprobs = [k \in Keys |-> AllZero]
    /\ fxh = InitFXHist

(***************************************************************************)
(* The aggregator and the table buckets.  sentiment_score and final_weight *)
(* are hundredths, the heats, the consensus and hype_velocity are          *)
(* thousandths (the code rounds them to 3 decimals), probabilities are     *)
(* fractions.  risk_polarity, avg_source_trust and avg_novelty, which are  *)
(* functions of the articles alone, are left out of the features.          *)
(***************************************************************************)
Tokens == {"BTC", "ETH"}
BucketTimes == 1..MaxBuckets
\* the process_token_ingestion tasks of the event loop
Ingestions == {"run1", "run2"}

\* the dictionary {}
EmptyProbs == [k \in {} |-> Zero]

(***************************************************************************)
(* Article rows: a bullish and a bearish article, the row of an article    *)
(* whose extraction ended in the error default and the row of a repeated   *)
(* content (novelty 0.0 makes final_weight 0.0).                           *)
(***************************************************************************)
StoredArticles ==
    {[url |-> "bull", sentiment_score |-> 100, final_weight |-> 100,
      event_probs |-> OneHot("listing")],
     [url |-> "bear", sentiment_score |-> -100, final_weight |-> 120,
      event_probs |-> OneHot("hack")],
     [url |-> "failed", sentiment_score |-> ErrorFeatures.sentiment_score,
      final_weight |-> ErrorFeatures.final_weight,
      event_probs |-> ErrorFeatures.event_probs],
     [url |-> "repeat", sentiment_score |-> 100, final_weight |-> 0,
      event_probs |-> OneHot("listing")]}

\* the article lists that process_token_articles passes on: never empty
ArticleLists ==
    {S \in SUBSET StoredArticles : S # {} /\ Cardinality(S) <= MaxArticles}

Abs(n) == IF n < 0 THEN -n ELSE n

GCD[a, b \in Nat] == IF b = 0 THEN a ELSE GCD[b, a % b]

\* the fraction in lowest terms
Lowest(x) ==
    IF x.den <= 0 THEN x
    ELSE LET g == GCD[Abs(x.num), x.den]
         IN Frac(x.num \div g, x.den \div g)

\* round(n / d) to the nearest integer, for d > 0
RoundDiv(n, d) ==
    LET q == n \div d
        r == n % d
    IN IF 2 * r < d THEN q
       ELSE IF 2 * r > d THEN q + 1
       ELSE IF q % 2 = 0 THEN q ELSE q + 1

\* the sum of the integers f[e], e in S
SumInt(S, f) ==
    LET sum[T \in SUBSET S] ==
            IF T = {} THEN 0
            ELSE LET e == CHOOSE x \in T : TRUE
                 IN f[e] + sum[T \ {e}]
    IN sum[S]

\* the sum of the fractions f[e], e in S, in lowest terms
Total(S, f) ==
    LET sum[T \in SUBSET S] ==
            IF T = {} THEN Zero
            ELSE LET e == CHOOSE x \in T : TRUE
                 IN Lowest(AddFrac[f[e], sum[T \ {e}]])
    IN sum[S]

\* sentiment * weight of an article, in ten-thousandths
Contribution(a) == a.sentiment_score * a.final_weight

\* _calculate_narrative_heat
NarrativeHeat(arts) ==
    RoundDiv(SumInt(arts, [a \in arts |-> Contribution(a)]), 10)

\* _calculate_sentiment_heat
PositiveHeat(arts) ==
    RoundDiv(SumInt(arts, [a \in arts |->
                 IF Contribution(a) > 0 THEN Contribution(a) ELSE 0]), 10)

\* faulty variant of NegativeHeat: the contributions keep their sign
NegativeHeatSigned(arts) ==
    RoundDiv(SumInt(arts, [a \in arts |->
                 IF Contribution(a) > 0 THEN 0 ELSE Contribution(a)]), 10)

\* _calculate_sentiment_heat, the second value
NegativeHeat(arts) ==
    RoundDiv(SumInt(arts, [a \in arts |->
                 IF Contribution(a) > 0 THEN 0 ELSE Abs(Contribution(a))]), 10)

\* sum of final_weight over the articles, in hundredths
TotalWeight(arts) == SumInt(arts, [a \in arts |-> a.final_weight])

\* event_probs.get(event_type, 0.0)
ProbOf(probs, k) == IF k \in DOMAIN probs THEN probs[k] ELSE Zero

\* weighted_event_scores[event_type] of _calculate_event_consensus
WeightedScore(arts, k) ==
    Total(arts, [a \in arts |->
                    LET p == ProbOf(a.event_probs, k)
                    IN Frac(p.num * a.final_weight, p.den * 100)])

\* self.event_types, in the order of the list
EventOrder ==
    <<"listing", "partnership", "hack", "depeg", "regulatory", "funding",
      "tech", "market-note", "op-ed">>

\* x < y of finite fractions
LessFrac(x, y) == x.num * y.den < y.num * x.den

\* max(event_distribution, key=event_distribution.get): the first maximum
TopEvent(dist) ==
    LET i == CHOOSE j \in 1..Len(EventOrder) :
                 /\ \A l \in 1..Len(EventOrder) :
                        ~LessFrac(dist[EventOrder[j]], dist[EventOrder[l]])
                 /\ \A l \in 1..(j - 1) :
                        LessFrac(dist[EventOrder[l]], dist[EventOrder[j]])
    IN EventOrder[i]

\* _calculate_event_consensus
EventConsensus(arts) ==
    IF arts = {} \/ TotalWeight(arts) = 0
    THEN [consensus |-> 0, event_distribution |-> EmptyProbs,
          top_event |-> "unknown"]
    ELSE LET share(k) == Lowest(DivFrac(WeightedScore(arts, k),
                                        Frac(TotalWeight(arts), 100)))
             \* the dictionary is filled event type by event type
             filled[i \in 0..Len(EventOrder)] ==
                 IF i = 0 THEN EmptyProbs
                 ELSE filled[i - 1] @@ (EventOrder[i] :> share(EventOrder[i]))
             dist == filled[Len(EventOrder)]
             top == TopEvent(dist)
         IN [consensus |-> RoundDiv(dist[top].num * 1000, dist[top].den),
             event_distribution |-> dist, top_event |-> top]

\* faulty variant of PreviousBuckets: the buckets of every token are read
PreviousBucketsAnyToken(store, token, ts) ==
    {b \in store : b.bucket_ts < ts}

\* the filter of the query of _calculate_hype_velocity
PreviousBuckets(store, token, ts) ==
    {b \in store : b.token = token /\ b.bucket_ts < ts}

\* faulty variant of HypeVelocity: the denominator is max(previous_heat, 1),
\* without the absolute value
HypeVelocitySigned(store, token, ts, heat) ==
    LET earlier == PreviousBuckets(store, token, ts)
    IN IF earlier = {} THEN 0
       ELSE LET previous == CHOOSE b \in earlier :
                                \A c \in earlier : c.bucket_ts <= b.bucket_ts
                previous_heat == previous.agg.narrative_heat
                denominator == IF previous_heat > 1000
                               THEN previous_heat ELSE 1000
            IN RoundDiv((heat - previous_heat) * 1000, denominator)

\* _calculate_hype_velocity: the query is ordered by bucket_ts descending
\* and its first row is read
HypeVelocity(store, token, ts, heat) ==
    LET earlier == PreviousBuckets(store, token, ts)
    IN IF earlier = {} THEN 0
       ELSE LET previous == CHOOSE b \in earlier :
                                \A c \in earlier : c.bucket_ts <= b.bucket_ts
                previous_heat == previous.agg.narrative_heat
                denominator == IF Abs(previous_heat) > 1000
                               THEN Abs(previous_heat) ELSE 1000
            IN RoundDiv((heat - previous_heat) * 1000, denominator)

\* the articles' part of the features, for every article list
ArticleFeaturesOf ==
    {[articles |-> arts,
      consensus |-> EventConsensus(arts),
      narrative_heat |-> NarrativeHeat(arts),
      positive_heat |-> PositiveHeat(arts),
      negative_heat |-> NegativeHeat(arts)] : arts \in ArticleLists}

\* _get_empty_bucket_features
EmptyBucketFeatures ==
    [narrative_heat |-> 0, positive_heat |-> 0, negative_heat |-> 0,
     consensus |-> 0, hype_velocity |-> 0, event_distribution |-> AllZero,
     top_event |-> "unknown", article_count |-> 0]

\* aggregate_token_bucket, which reads the table buckets
AggregateTokenBucket(store, token, ts, arts) ==
    IF arts = {} THEN EmptyBucketFeatures
    ELSE LET f == CHOOSE r \in ArticleFeaturesOf : r.articles = arts
             c == f.consensus
             heat == f.narrative_heat
         IN [narrative_heat |-> heat,
             positive_heat |-> f.positive_heat,
             negative_heat |-> f.negative_heat,
             consensus |-> c.consensus,
             hype_velocity |-> HypeVelocity(store, token, ts, heat),
             event_distribution |-> c.event_distribution,
             top_event |-> c.top_event,
             article_count |-> Cardinality(arts)]

\* UniqueConstraint('token', 'bucket_ts')
UniqueBuckets(store) ==
    \A b, c \in store :
        (b.token = c.token /\ b.bucket_ts = c.bucket_ts) => b = c

\* faulty variant of Upsert: an existing bucket is left as it is
UpsertKeepsExisting(store, token, ts, features) ==
    LET existing == {b \in store : b.token = token /\ b.bucket_ts = ts}
    IN IF existing # {} THEN store
       ELSE store \cup {[id |-> Cardinality(store) + 1, token |-> token,
                         bucket_ts |-> ts, agg |-> features]}

\* create_or_update_bucket from the query for the existing bucket to
\* db.add: the rows as the session holds them before the commit
Upsert(store, token, ts, features) ==
    LET existing == {b \in store : b.token = token /\ b.bucket_ts = ts}
    IN IF existing # {}
       THEN LET e == CHOOSE b \in existing : \A c \in existing : b.id <= c.id
            IN (store \ {e}) \cup {[e EXCEPT !.agg = features]}
       ELSE store \cup {[id |-> Cardinality(store) + 1, token |-> token,
                         bucket_ts |-> ts, agg |-> features]}

\* the features of a pair for which no call has completed
NoBucketFeatures == [EmptyBucketFeatures EXCEPT !.article_count = -1]

(***************************************************************************)
(* History of the create_or_update_bucket calls: calls counts them; call  *)
(* is the latest call: its arguments, the features it computed (out), the  *)
(* stored narrative_heat of the bucket of the same token with the greatest *)
(* earlier bucket_ts when it began (prev) and whether it raised; last      *)
(* holds for each (token, bucket_ts) the last completed call for the pair; *)
(* before is what last held for the pair of the latest call when that      *)
(* call began.                                                             *)
(***************************************************************************)
NoPrev == [exists |-> FALSE, heat |-> 0]

NoBucketCall ==
    [token |-> None, bucket_ts |-> 0, articles |-> {},
     prev |-> NoPrev, out |-> NoBucketFeatures, raised |-> FALSE]

InitAGHist ==
    [calls |-> 0,
     last |-> [t \in Tokens, ts \in BucketTimes |-> NoBucketCall],
     call |-> NoBucketCall, before |-> NoBucketCall]

\* the aggregator of a specification that does not use it
AGIdle ==
    /\ bstore = {}
    /\ agh = InitAGHist

(***************************************************************************)
(* The ingestion tasks and the table articles.  An article is named by     *)
(* its url; the article "u3" has no title (title None).                    *)
(***************************************************************************)
Urls == {"u1", "u2", "u3"}
Untitled == {"u3"}

\* what get_token_articles returns: it removes the duplicates of a url
Batches ==
    {b \in UNION {[1..n -> Urls] : n \in 0..MaxBatch} :
        \A i, j \in DOMAIN b : i # j => b[i] # b[j]}

\* a task that has not been started: added are the urls of the articles
\* its session holds after db.add, dups those of them that the table held
\* when it committed, committed those that its commit wrote
IdleIngestion ==
    [pc |-> "idle", token |-> None, batch |-> <<>>, i |-> 0, added |-> {},
     processed_count |-> 0, failed_count |-> 0, outcome |-> None,
     dups |-> {}, committed |-> {}, aggregated |-> FALSE]

\* the ingestion of a specification that does not use it
INIdle ==
    /\ adb = {}
    /\ ing = [t \in Ingestions |-> IdleIngestion]

\* the database of a specification that does not use it
DBIdle ==
    /\ AGIdle
    /\ INIdle

(***************************************************************************)
(* calculate_delay.  Delays are counted in milliseconds.  The configs are  *)
(* those of the clients and of the spec's example (base_delay 0.5, 1.0,    *)
(* 2.0; max_delay 3, 5, 8, 15, 60 seconds), with every strategy and        *)
(* exponential_base 1, 2 and 3.                                            *)
(***************************************************************************)
Strategies == {"exponential", "linear", "fixed"}
BaseDelays == {500, 1000, 2000}
MaxDelays == {3000, 5000, 8000, 15000, 60000}
ExponentialBases == {1, 2, 3}
DelayAttempts == 1..MaxDelayAttempt

RetryConfigs ==
    [backoff_strategy : Strategies, base_delay : BaseDelays,
     max_delay : MaxDelays, exponential_base : ExponentialBases,
     jitter : BOOLEAN]

\* the values of 0.5 + random.random() * 0.5 that are used, in hundredths
JitterFactors == {50, 75, 100}

RECURSIVE Power(_, _)
Power(b, k) == IF k = 0 THEN 1 ELSE b * Power(b, k - 1)

\* faulty variant of Backoff: the exponent is attempt
BackoffFromBase(attempt, config) ==
    IF config.backoff_strategy = "exponential"
    THEN Min(config.base_delay * Power(config.exponential_base, attempt),
               config.max_delay)
    ELSE IF config.backoff_strategy = "linear"
    THEN Min(config.base_delay * attempt, config.max_delay)
    ELSE config.base_delay

\* calculate_delay before the jitter
Backoff(attempt, config) ==
    IF config.backoff_strategy = "exponential"
    THEN Min(config.base_delay
                   * Power(config.exponential_base, attempt - 1),
               config.max_delay)
    ELSE IF config.backoff_strategy = "linear"
    THEN Min(config.base_delay * attempt, config.max_delay)
    ELSE config.base_delay

\* calculate_delay(attempt, config) when random.random() makes the factor
CalculateDelay(attempt, config, factor) ==
    IF config.jitter THEN (Backoff(attempt, config) * factor) \div 100
    ELSE Backoff(attempt, config)

\* no delay calculated for an attempt
NoDelay == -1

\* the config of a specification that calculates no delay
IdleConfig ==
    [backoff_strategy |-> "exponential", base_delay |-> 1000,
     max_delay |-> 60000, exponential_base |-> 2, jitter |-> TRUE]

DLIdle == dl = [config |-> IdleConfig,
                delay |-> [a \in DelayAttempts |-> NoDelay]]

(***************************************************************************)
(* MLEngine.  A field of bucket_data is a number (in thousandths), None,   *)
(* missing, the float nan or a text.  Probabilities are counted in units   *)
(* of 0.00001.  A PredictionResult is kept as its probability_up and the   *)
(* code path that built it: the trained model, the rule-based default, or  *)
(* the flat result of an except branch (0.5, LOW, no features).            *)
(***************************************************************************)
Number(v) == [kind |-> "number", v |-> v]
Special(k) == [kind |-> k, v |-> 0]

HeatValues == {-5000, -1200, -1, 0, 1, 1000, 3000}
ConsensusValues == {0, 500, 501, 1000}
RiskValues == {-5000, -1000, -400, 0, 400, 1000, 5000}
VelocityValues == {-5000, -500, 0, 500, 1833, 5000}

FieldsOf(values, kinds) ==
    {Number(v) : v \in values} \cup {Special(k) : k \in kinds}

BucketInputs ==
    [narrative_heat : FieldsOf(HeatValues, {"None", "missing", "nan", "text"}),
     consensus : FieldsOf(ConsensusValues, {"None", "nan", "text"}),
     risk_polarity : FieldsOf(RiskValues, {"None", "missing", "nan", "text"}),
     hype_velocity : FieldsOf(VelocityValues, {"None", "nan", "text"})]

\* bucket_data.get(name) or 0.0 of a field that is no text
OrZero(f) == IF f.kind = "number" THEN f.v ELSE 0

HalfProbability == 50000
LowestProbability == 10000
HighestProbability == 90000

\* the PredictionResult of the except branches
FlatPrediction == [probability_up |-> HalfProbability, source |-> "flat"]

\* base_prob after the four adjustments, for fields that are numbers
BaseProb(heat, consensus, risk, velocity) ==
    LET heat_adjustment == Min(Abs(heat) * 10, 20000)
        after_heat == IF heat > 0 THEN HalfProbability + heat_adjustment
                      ELSE IF heat < 0 THEN HalfProbability - heat_adjustment
                      ELSE HalfProbability
        after_consensus == IF consensus > 500
                           THEN after_heat + (consensus - 500) * 20
                           ELSE after_heat
        after_risk == after_consensus + risk * 15
    IN IF velocity > 0 THEN after_risk + Min(velocity * 10, 10000)
       ELSE IF velocity < 0 THEN after_risk - Min(-velocity * 10, 10000)
       ELSE after_risk

\* faulty variant of Clamp: only the upper limit
ClampAbove(p) == Min(HighestProbability, p)

\* max(0.1, min(0.9, base_prob))
Clamp(p) ==
    LET upper == Min(HighestProbability, p)
    IN IF upper < LowestProbability THEN LowestProbability ELSE upper

\* _get_intelligent_default_prediction: a text raises TypeError in the
\* arithmetic, which the except branch answers; a nan is truthy, fails
\* every comparison but != 0, and min(0.9, nan) is 0.9
IntelligentDefaultPrediction(bucket) ==
    LET kinds == {bucket.narrative_heat.kind, bucket.consensus.kind,
                  bucket.risk_polarity.kind, bucket.hype_velocity.kind}
    IN IF "text" \in kinds THEN FlatPrediction
       ELSE IF bucket.risk_polarity.kind = "nan"
       THEN [probability_up |-> HighestProbability, source |-> "default"]
       ELSE [probability_up |->
                 Clamp(BaseProb(OrZero(bucket.narrative_heat),
                                OrZero(bucket.consensus),
                                OrZero(bucket.risk_polarity),
                                OrZero(bucket.hype_velocity))),
             source |-> "default"]

\* no bucket, no result
NoBucketData ==
    [narrative_heat |-> Special("missing"), consensus |-> Special("None"),
     risk_polarity |-> Special("missing"), hype_velocity |-> Special("None")]

NoPrediction == [probability_up |-> 0, source |-> None]

\* the probabilities that predict_proba of a trained model returns
ModelProbabilities == {0, 50000, 95000, 100000}

\* `if len(X) < 10`, and max(10, len(X)) of _auto_train_model
BootstrapSamples == 10

(***************************************************************************)
(* The model store and the tables that training reads: active says that    *)
(* an MLModel row is active (and its file is in models_dir), buckets       *)
(* counts the recent Bucket rows and labeled those of them that have a     *)
(* Label.  available and trained are history: whether the last predict     *)
(* found a model to load, and whether it trained one.                      *)
(***************************************************************************)
EmptyStore(bucket) ==
    [bucket |-> bucket, result |-> NoPrediction, active |-> FALSE,
     buckets |-> 0, labeled |-> 0, available |-> FALSE, trained |-> FALSE]

MLIdle == ml = EmptyStore(NoBucketData)

(***************************************************************************)
(* Articles for the heats: sentiment_score and final_weight in hundredths, *)
(* as the extractor stores them (any float in [-1, 1], any product of the  *)
(* weight factors).  The first is the article of the spec's scenario.      *)
(***************************************************************************)
HeatArticles ==
    {[url |-> "a1", sentiment_score |-> 60, final_weight |-> 80],
     [url |-> "a2", sentiment_score |-> 33, final_weight |-> 12],
     [url |-> "a3", sentiment_score |-> -11, final_weight |-> 12],
     [url |-> "a4", sentiment_score |-> -100, final_weight |-> 120],
     [url |-> "a5", sentiment_score |-> ErrorFeatures.sentiment_score,
      final_weight |-> ErrorFeatures.final_weight],
     [url |-> "a6", sentiment_score |-> 100, final_weight |-> 0],
     [url |-> "a7", sentiment_score |-> -42, final_weight |-> 2],
     [url |-> "a8", sentiment_score |-> 7, final_weight |-> 46]}

HeatLists ==
    {S \in SUBSET HeatArticles : S # {} /\ Cardinality(S) <= MaxHeatArticles}

\* no heat calculated
NoHeats == [narrative_heat |-> 0, positive_heat |-> 0, negative_heat |-> 0,
            done |-> FALSE]

HTIdle == ht = [articles |-> {}, heats |-> NoHeats]

(***************************************************************************)
(* The tasks in RateLimiter.wait_for_token: a task is idle, asleep between *)
(* two polls, or has returned; n is the size it asked for, got the tokens  *)
(* its call has consumed.                                                  *)
(***************************************************************************)
Waiters == {"t1", "t2"}

IdleWaiter == [pc |-> "idle", n |-> 0, got |-> 0]

\* no poll made
NoPoll == [by |-> None, n |-> 0, ok |-> FALSE, found |-> 0, left |-> 0]

WTIdle == wt = [tasks |-> [w \in Waiters |-> IdleWaiter], poll |-> NoPoll]

(***************************************************************************)
(* _rate_limiters: the limiters registered at import, as their rate and    *)
(* burst, and the service names the callers of with_rate_limit pass.       *)
(***************************************************************************)
GroqRate == 2
GroqBurst == 5
GeckoRate == 10
GeckoBurst == 20
McpRate == 5
McpBurst == 10
DefaultRate == 1
DefaultBurst == 5

RegisteredNames == {"groq", "gecko", "mcp"}

\* a name that is not registered
ServiceNames == RegisteredNames \cup {"news"}

RateLimiters ==
    ("groq" :> NewRateLimiter(GroqRate, GroqBurst))
    @@ ("gecko" :> NewRateLimiter(GeckoRate, GeckoBurst))
    @@ ("mcp" :> NewRateLimiter(McpRate, McpBurst))

\* no limiter: no call was made with the name
NoLimiter == [rate |-> 0, burst |-> 0, tokens |-> 0, last_refill |-> 0]

\* no with_rate_limit call in progress
NoRateCall == [pc |-> "idle", name |-> None, limiter |-> NoLimiter]

\* get_rate_limiter(service_name) at time t: the registered limiter, or a
\* limiter made for this call
GetRateLimiter(limiters, name, t) ==
    IF name \in DOMAIN limiters
    THEN limiters[name]
    ELSE [NewRateLimiter(DefaultRate, DefaultBurst) EXCEPT !.last_refill = t]

\* history of the calls: for every name the limiter as the last acquire
\* with that name left it, and for the latest call the limiter that
\* get_rate_limiter returned and the one the call before with its name left
InitREHist ==
    [left |-> [s \in ServiceNames |-> NoLimiter],
     found |-> NoLimiter, before |-> NoLimiter, name |-> None]

REIdle ==
    reg = [limiters |-> RateLimiters, call |-> NoRateCall, calls |-> 0,
           h |-> InitREHist]

\* the operations of a specification that does not use them
OPIdle ==
    /\ DLIdle
    /\ MLIdle
    /\ HTIdle
    /\ WTIdle
    /\ REIdle

\* the clients of a specification that does not use them
XIdle ==
    /\ GPIdle
    /\ FXIdle
    /\ DBIdle
    /\ OPIdle

(***************************************************************************)
(* Concurrent callers of one breaker.  A call is idle or suspended in the  *)
(* wrapped function ("running"); its finish (return, raise, or rejection   *)
(* by the breaker) is recorded in the history variable ev.                 *)
(*                                                                         *)
(* History: ev is the last step (kind, exception class, the breaker before *)
(* the step, and for the finish of a call that no other call overlapped    *)
(* the breaker before that call began).  hist.streak counts the tracked    *)
(* failures since the last success, hist.streakFromClosed tells whether    *)
(* the streak began with the breaker CLOSED and failure_count = 0,         *)
(* hist.hoSucc counts the successes of the current half-open period since  *)
(* its last failure, hist.solo is the breaker before the admission of the  *)
(* only call in flight.                                                    *)
(***************************************************************************)
NoEvent == [kind |-> "none", exc |-> None, pre |-> NoBreaker, start |-> NoBreaker]

InitHist == [streak |-> 0, streakFromClosed |-> TRUE, hoSucc |-> 0,
             solo |-> NoBreaker]

\* exceptions the wrapped function raises
FuncExceptions == {"HTTPError", "ValueError", "CancelledError"}

\* expected_exception as the clients register it: FeatureExtractor.__init__
\* for groq_api, GeckoTerminalClient.__init__ for gecko_terminal
RegisteredExpected(s) ==
    IF s = "groq_api" THEN AllExceptions ELSE HttpxExceptions

InitBreakers ==
    /\ \E thr \in 1..MaxThreshold, to \in 1..MaxTimeout :
          cb_config = [s \in Services |->
                          [failure_threshold |-> thr, timeout |-> to,
                           expected_exception |-> RegisteredExpected(s)]]
    /\ cb_state = [s \in Services |-> CircuitBreakerState]

CBInit ==
    /\ now = 0
    /\ InitBreakers
    /\ \E s \in Services : calls = [c \in Calls |-> [pc |-> "idle", svc |-> s]]
    /\ ev = NoEvent
    /\ hist = InitHist
    /\ RLIdle
    /\ WRIdle
    /\ FCIdle
    /\ XIdle

\* the breakers of a specification that does not call them
CBIdle ==
    /\ cb_config = [s \in Services |->
                       [failure_threshold |-> 1, timeout |-> 1,
                        expected_exception |-> RegisteredExpected(s)]]
    /\ cb_state = [s \in Services |-> CircuitBreakerState]
    /\ calls = [c \in Calls |-> [pc |-> "idle", svc |-> "groq_api"]]
    /\ ev = NoEvent
    /\ hist = InitHist

Running(c) == calls[c].pc = "running"

(***************************************************************************)
(* CircuitBreaker.call up to the await of the wrapped function.            *)
(***************************************************************************)
CBCallStart(c) ==
    /\ ~Running(c)
    /\ LET s == calls[c].svc
           b == cb_state[s]
           r == Admit(b, now)
           alone == \A d \in Calls : ~Running(d)
       IN /\ cb_state' = [cb_state EXCEPT ![s] = r.breaker]
          /\ calls' = [calls EXCEPT ![c].pc =
                          IF r.rejected THEN "idle" ELSE "running"]
          /\ ev' = [kind |-> IF r.rejected THEN "reject" ELSE "admit",
                    exc |-> IF r.rejected THEN "Exception" ELSE None,
                    pre |-> b, start |-> NoBreaker]
          /\ hist' = [hist EXCEPT
                 !.hoSucc = IF b.state = "OPEN" /\ ~r.rejected
                            THEN 0 ELSE hist.hoSucc,
                 !.solo = IF r.rejected THEN hist.solo
                          ELSE IF alone THEN b ELSE NoBreaker]
    /\ UNCHANGED <<now, cb_config>>
    /\ UNCHANGED <<rlVars, wrVars, fcVars, xVars>>

(***************************************************************************)
(* The wrapped function returns: _on_success, then the result is returned. *)
(***************************************************************************)
CBFuncReturn(c) ==
    /\ Running(c)
    /\ LET s == calls[c].svc
           b == cb_state[s]
           nb == OnSuccess(b)
       IN /\ cb_state' = [cb_state EXCEPT ![s] = nb]
          /\ calls' = [calls EXCEPT ![c].pc = "idle"]
          /\ ev' = [kind |-> "return", exc |-> None, pre |-> b,
                    start |-> hist.solo]
          /\ hist' = [streak |-> 0,
                      streakFromClosed |->
                          (nb.state = "CLOSED" /\ nb.failure_count = 0),
                      hoSucc |-> IF b.state = "HALF_OPEN"
                                 THEN hist.hoSucc + 1 ELSE hist.hoSucc,
                      solo |-> NoBreaker]
    /\ UNCHANGED <<now, cb_config>>
    /\ UNCHANGED <<rlVars, wrVars, fcVars, xVars>>

(***************************************************************************)
(* The wrapped function raises an exception of class cls.                  *)
(***************************************************************************)
CBFuncRaise(c, cls) ==
    /\ Running(c)
    /\ LET s == calls[c].svc
           b == cb_state[s]
           tracked == Catches(cb_config[s].expected_exception, cls)
       IN /\ cb_state' = [cb_state EXCEPT ![s] =
                              AfterRaise(b, cb_config[s], now, cls)]
          /\ calls' = [calls EXCEPT ![c].pc = "idle"]
          /\ ev' = [kind |-> "raise", exc |-> cls, pre |-> b,
                    start |-> hist.solo]
          /\ hist' = [hist EXCEPT
                 !.streak = IF tracked THEN hist.streak + 1 ELSE hist.streak,
                 !.hoSucc = IF tracked THEN 0 ELSE hist.hoSucc,
                 !.solo = NoBreaker]
    /\ UNCHANGED <<now, cb_config>>
    /\ UNCHANGED <<rlVars, wrVars, fcVars, xVars>>

(***************************************************************************)
(* Time passes.                                                            *)
(***************************************************************************)
Tick ==
    /\ now < MaxTime
    /\ now' = now + 1

CBTick ==
    /\ Tick
    /\ ev' = [NoEvent EXCEPT !.kind = "tick"]
    /\ UNCHANGED <<cb_config, cb_state, calls, hist>>
    /\ UNCHANGED <<rlVars, wrVars, fcVars, xVars>>

CBNext ==
    \/ \E c \in Calls : CBCallStart(c)
    \/ \E c \in Calls : CBFuncReturn(c)
    \/ \E c \in Calls, cls \in FuncExceptions : CBFuncRaise(c, cls)
    \/ CBTick

vars == <<now, cbVars, rlVars, wrVars, fcVars, xVars>>

SpecCB == CBInit /\ [][CBNext]_vars

(***************************************************************************)
(* Properties of the circuit breaker (SpecCB).                             *)
(***************************************************************************)
\* the breaker the callers share, and its configuration
B == cb_state[calls[1].svc]
Cfg == cb_config[calls[1].svc]

\* the last step was a wrapped function raising a tracked exception
EvFail == ev.kind = "raise" /\ Catches(Cfg.expected_exception, ev.exc)
\* the last step was a wrapped function raising an untracked exception
EvUnexpected == ev.kind = "raise" /\ ~Catches(Cfg.expected_exception, ev.exc)

\* C1: from CLOSED with failure_count = 0, the failure that completes a run
\* of exactly failure_threshold consecutive tracked failures leaves the
\* breaker OPEN with next_attempt_time = (time of that failure) + timeout;
\* and a call that starts while now < next_attempt_time raises the breaker's
\* own exception without invoking the wrapped function.
C1_OpensAtThreshold ==
    /\ (EvFail /\ hist.streakFromClosed
               /\ hist.streak = Cfg.failure_threshold)
          => /\ B.state = "OPEN"
             /\ B.last_failure_time = now
             /\ B.next_attempt_time = B.last_failure_time + Cfg.timeout
    /\ (ev.kind \in {"admit", "reject"}
          /\ ev.pre.next_attempt_time # NoTime
          /\ now < ev.pre.next_attempt_time)
          => /\ ev.kind = "reject"
             /\ ev.exc = "Exception"
             /\ B = ev.pre

\* C1 witness: a call is rejected after a run of exactly failure_threshold
\* failures that began with the breaker CLOSED
C1_Witness ==
    /\ ev.kind = "reject"
    /\ hist.streakFromClosed
    /\ hist.streak = Cfg.failure_threshold
    /\ Cfg.failure_threshold > 1

\* C2 (as claimed): the breaker goes HALF_OPEN -> CLOSED only at the third
\* consecutive success of the current half-open period, with failure_count 0.
C2_ClosesAfterThreeInPeriod ==
    (ev.kind = "return" /\ ev.pre.state = "HALF_OPEN" /\ B.state = "CLOSED")
        => (hist.hoSucc >= ProbationSuccesses /\ B.failure_count = 0)

\* C3 (as claimed): a tracked failure in any HALF_OPEN state moves the
\* breaker to OPEN in that step with next_attempt_time = now + timeout.
C3_HalfOpenFailureReopens ==
    (EvFail /\ ev.pre.state = "HALF_OPEN")
        => (B.state = "OPEN" /\ B.next_attempt_time = now + Cfg.timeout)

\* the breaker a call leaves after its admission check, given the breaker
\* it found: an admitted call found in OPEN has moved it to HALF_OPEN
AfterAdmission(b) ==
    IF b.state = "OPEN" THEN [b EXCEPT !.state = "HALF_OPEN"] ELSE b

\* C4 (as claimed): when the wrapped function raises an untracked exception
\* the breaker's fields have the values they had before the call started
\* (for a call that no other call overlapped).
C4_UntrackedLeavesBreakerAsBeforeCall ==
    (EvUnexpected /\ ev.start # NoBreaker) => B = ev.start

\* C4 (amended): the untracked exception itself changes no field of the
\* breaker; over the whole call the only change is the OPEN -> HALF_OPEN
\* move made by the admission check when the timeout had elapsed.
C4_UntrackedChangesNothingButAdmission ==
    EvUnexpected =>
        /\ B = ev.pre
        /\ ev.start # NoBreaker => B = AfterAdmission(ev.start)

\* C4 witness: an untracked exception ends a call that began with the
\* breaker OPEN and the timeout elapsed
C4_Witness ==
    /\ EvUnexpected
    /\ ev.start # NoBreaker
    /\ ev.start.state = "OPEN"
    /\ B.state = "HALF_OPEN"

\* C5: while only tracked failures have completed since the breaker was
\* CLOSED with failure_count = 0, failure_count equals the number of those
\* failures under every interleaving, and the failure that brings the
\* number to failure_threshold or more leaves the breaker OPEN.
C5_NoLostFailure ==
    hist.streakFromClosed =>
        /\ B.failure_count = hist.streak
        /\ (EvFail /\ hist.streak >= Cfg.failure_threshold)
              => B.state = "OPEN"

\* C5 witness: more failures than the threshold have completed, the last
\* one while another call was still in flight
C5_Witness ==
    /\ EvFail
    /\ hist.streakFromClosed
    /\ hist.streak > Cfg.failure_threshold
    /\ \E c \in Calls : Running(c)

(***************************************************************************)
(* The rate limiter under any number of callers: acquire has no await, so  *)
(* every call of it is one step whoever makes it.                          *)
(***************************************************************************)
RLAcquire(n) ==
    /\ LET r == Acquire(rl, n, now)
       IN /\ rl' = r.limiter
          /\ rlh' = [granted |-> IF r.ok THEN rlh.granted + n ELSE rlh.granted,
                     emptiedAt |-> IF r.ok
                                   THEN IF r.limiter.tokens = 0
                                        THEN now ELSE NoTime
                                   ELSE rlh.emptiedAt,
                     refused |-> IF r.ok THEN FALSE
                                 ELSE (rlh.emptiedAt # NoTime),
                     last |-> [n |-> n, at |-> now, ok |-> r.ok,
                               sinceEmpty |-> rlh.emptiedAt,
                               afterRefusal |-> rlh.refused]]
    /\ UNCHANGED now
    /\ UNCHANGED <<cbVars, wrVars, fcVars, xVars>>

RLTick ==
    /\ now < RLMaxTime
    /\ now' = now + 1
    /\ UNCHANGED <<rlVars, wrVars, fcVars, xVars>>
    /\ UNCHANGED <<cbVars, wrVars, fcVars, xVars>>

RLNext ==
    \/ \E n \in AcquireSizes : RLAcquire(n)
    \/ RLTick

RLInit ==
    /\ RLStart
    /\ CBIdle
    /\ WRIdle
    /\ FCIdle
    /\ XIdle

SpecRL == RLInit /\ [][RLNext]_vars

(***************************************************************************)
(* Properties of the rate limiter (SpecRL).                                *)
(***************************************************************************)
\* C6: the tokens granted up to time t never exceed burst + rate * t; an
\* acquire is refused only when the tokens granted so far leave fewer than
\* it asks for in a full bucket (so the first burst acquire(1) calls
\* succeed); and after a grant emptied the bucket at time e the next grant
\* of n tokens happens exactly when (t - e) * rate >= n (0.5 s for rate 2,
\* n 1), whatever refused polls were made in between.
C6_TokenBucketBound ==
    /\ rlh.granted * TicksPerSecond
          <= rl.burst * TicksPerSecond + rl.rate * now
    /\ (rlh.last.n > 0 /\ ~rlh.last.ok) => rlh.granted + rlh.last.n > rl.burst
    /\ (rlh.last.n > 0 /\ rlh.last.sinceEmpty # NoTime) =>
          (rlh.last.ok <=>
              Min(rl.burst * TicksPerSecond,
                  (rlh.last.at - rlh.last.sinceEmpty) * rl.rate)
                 >= rlh.last.n * TicksPerSecond)

\* C6 witness: rate 2, burst 2; the third acquire is granted at the first
\* tick at which 0.5 s have passed since the second emptied the bucket,
\* after a refused poll in between
C6_Witness ==
    /\ rl.rate = 2 /\ rl.burst = 2
    /\ rlh.granted = 3
    /\ rlh.last.ok /\ rlh.last.afterRefusal
    /\ rlh.last.sinceEmpty = 0
    /\ (rlh.last.at - 1) * rl.rate < TicksPerSecond

\* C30: a call rejected because the breaker is OPEN and now is before
\* next_attempt_time leaves state, failure_count, success_count,
\* last_failure_time and next_attempt_time of the breaker as they were,
\* whatever expected_exception is.
C30_RejectionLeavesBreaker ==
    ev.kind = "reject" =>
        /\ ev.pre.state = "OPEN"
        /\ now < ev.pre.next_attempt_time
        /\ B = ev.pre

\* C30 witness: the groq_api breaker, whose expected_exception is
\* (Exception,), is OPEN with its window not over, a call has just been
\* rejected and the breaker is as it was before the call
C30_Witness ==
    /\ ev.kind = "reject"
    /\ calls[1].svc = "groq_api"
    /\ cb_config["groq_api"].expected_exception = AllExceptions
    /\ B.state = "OPEN"
    /\ now < B.next_attempt_time
    /\ B.failure_count = cb_config["groq_api"].failure_threshold
    /\ B = ev.pre

(***************************************************************************)
(* One task calling a decorated function again and again.                  *)
(***************************************************************************)
WRInit ==
    /\ now = 0
    /\ InitBreakers
    /\ wcfg \in WrapperConfigs
    /\ wr = IdleWrapper
    /\ wrh = InitWRHist
    /\ calls = [c \in Calls |-> [pc |-> "idle", svc |-> "groq_api"]]
    /\ ev = NoEvent
    /\ hist = InitHist
    /\ RLIdle
    /\ FCIdle
    /\ XIdle

WRFrame ==
    UNCHANGED <<now, cb_config, calls, ev, hist, rlVars, wcfg, fcVars, xVars>>

\* the decorated function is called: attempt 1 starts
WRCall ==
    /\ wr.pc \in {"idle", "done"}
    /\ StartAttempt([IdleWrapper EXCEPT !.attempt = 1], InitWRHist)
    /\ WRFrame

\* asyncio.sleep(delay) / time.sleep(delay) is over: the next attempt starts
WRWake ==
    /\ wr.pc = "sleep"
    /\ StartAttempt([wr EXCEPT !.attempt = wr.attempt + 1], wrh)
    /\ WRFrame

\* the wrapped function returns
WRFuncReturn ==
    /\ wr.pc = "func"
    /\ cb_state' = IF UsesBreaker
                   THEN [cb_state EXCEPT ![wcfg.breaker] =
                            OnSuccess(cb_state[wcfg.breaker])]
                   ELSE cb_state
    /\ wr' = [wr EXCEPT !.pc = "done",
                 !.outcome = [kind |-> "return",
                              val |-> [cls |-> "value", by |-> "func",
                                       attempt |-> wr.attempt]]]
    /\ wrh' = wrh
    /\ WRFrame

\* the wrapped function raises an exception of class cls
WRFuncRaise(cls) ==
    /\ wr.pc = "func"
    /\ cb_state' = IF UsesBreaker
                   THEN [cb_state EXCEPT ![wcfg.breaker] =
                            AfterRaise(cb_state[wcfg.breaker],
                                       cb_config[wcfg.breaker], now, cls)]
                   ELSE cb_state
    /\ LET x == Handle(wr, wrh, [cls |-> cls, by |-> "func",
                                 attempt |-> wr.attempt])
       IN /\ wr' = x.wr
          /\ wrh' = x.wrh
    /\ WRFrame

\* the fallback function returns: its result is the wrapper's
WRFallbackReturn ==
    /\ wr.pc = "fallback"
    /\ LET v == [kind |-> "return",
                 val |-> [cls |-> "value", by |-> "fallback",
                          attempt |-> wr.attempt]]
       IN /\ wr' = [wr EXCEPT !.pc = "done", !.outcome = v]
          /\ wrh' = [wrh EXCEPT !.fb = v]
    /\ UNCHANGED cb_state
    /\ WRFrame

\* the fallback function raises: `except Exception` logs it and the wrapper
\* raises last_exception; an exception that is not an Exception goes through
WRFallbackRaise(cls) ==
    /\ wr.pc = "fallback"
    /\ LET e == [cls |-> cls, by |-> "fallback", attempt |-> wr.attempt]
       IN /\ wr' = [wr EXCEPT !.pc = "done",
                       !.outcome = [kind |-> "raise",
                                    val |-> IF Catches({"Exception"}, cls)
                                            THEN wr.last_exception ELSE e]]
          /\ wrh' = [wrh EXCEPT !.fb = [kind |-> "raise", val |-> e]]
    /\ UNCHANGED cb_state
    /\ WRFrame

WRTick ==
    /\ Tick
    /\ UNCHANGED <<cbVars, rlVars, wrVars, fcVars, xVars>>

WRNext ==
    \/ WRCall
    \/ WRWake
    \/ WRFuncReturn
    \/ \E cls \in FuncExceptions : WRFuncRaise(cls)
    \/ WRFallbackReturn
    \/ \E cls \in FallbackExceptions : WRFallbackRaise(cls)
    \/ WRTick

SpecRetry == WRInit /\ [][WRNext]_vars

(***************************************************************************)
(* Properties of retry_with_fallback (SpecRetry).                          *)
(***************************************************************************)
\* the call is over after every one of the max_attempts attempts failed
Exhausted == wr.pc = "done" /\ wrh.exhausted

RaisesLastAttempt == wr.outcome = [kind |-> "raise", val |-> wrh.lastExc]

\* C7 (as claimed): after all attempts failed the wrapper's outcome is the
\* fallback's outcome when a fallback is configured (its result, or the
\* exception it raised), and the exception of the last attempt otherwise.
C7_OutcomeIsFallbackOutcome ==
    Exhausted =>
        IF wcfg.fallback THEN wr.outcome = wrh.fb ELSE RaisesLastAttempt

\* C7 (amended): after all attempts failed the wrapper returns the
\* fallback's result when a fallback is configured and returns; when the
\* fallback raises an Exception, or no fallback is configured, the wrapper
\* raises the exception of the last attempt; an exception of the fallback
\* that is not an Exception leaves the wrapper as it is.
C7_FallbackResultOrLastException ==
    Exhausted =>
        IF wcfg.fallback
              /\ (wrh.fb.kind = "return"
                    \/ ~Catches({"Exception"}, wrh.fb.val.cls))
        THEN wr.outcome = wrh.fb
        ELSE RaisesLastAttempt

\* C7 witness: two attempts failed, the fallback raised an Exception, and
\* the wrapper raised the exception of the second attempt
C7_Witness ==
    /\ Exhausted
    /\ wcfg.fallback
    /\ wrh.fb.kind = "raise"
    /\ wrh.fb.val.cls = "ValueError"
    /\ wr.outcome.kind = "raise"
    /\ wr.outcome.val.by = "func"
    /\ wr.outcome.val.attempt = 2

\* C8 (as claimed): in every wrapper that goes through a breaker an attempt
\* rejected by the OPEN breaker counts as a failed attempt: before the last
\* attempt the wrapper sleeps and goes on, on the last attempt it takes the
\* way of exhausted attempts.
C8_RejectionIsAFailedAttempt ==
    (UsesBreaker /\ wrh.rejected) =>
        IF wr.attempt < wcfg.max_attempts
        THEN wr.pc = "sleep"
        ELSE wrh.exhausted

\* an attempt of the retry loop that the breaker rejects leaves every
\* breaker as it was
RejectedAttemptLeavesBreaker ==
    [][(wrh'.rejected /\ wrh' # wrh) => cb_state' = cb_state]_vars

\* the latest attempt raised an exception outside expected_exceptions
Unexpected ==
    /\ wrh.lastExc # NoException
    /\ ~Catches(wcfg.expected_exceptions, wrh.lastExc.cls)

\* C26: one call of the wrapper invokes the wrapped function at most
\* max_attempts times; a call that returned the function's result returned
\* that of the latest attempt begun, the only one that succeeded; a
\* sleep follows every failed attempt but the last (max_attempts - 1 sleeps
\* when all attempts failed, none after the last); an exception outside
\* expected_exceptions ends the call with that exception, with no further
\* attempt, no sleep and no fallback.
C26_AttemptsSleepsAndUnexpected ==
    /\ wrh.invocations <= wr.attempt
    /\ wr.attempt <= wcfg.max_attempts
    /\ (wr.pc = "done" /\ wr.outcome.kind = "return"
           /\ wr.outcome.val.by = "func") =>
            /\ wr.outcome.val.attempt = wr.attempt
            /\ wrh.lastExc.attempt < wr.attempt
            /\ ~wrh.exhausted
    /\ (wr.pc = "sleep") =>
            (wr.attempt < wcfg.max_attempts /\ wrh.sleeps = wr.attempt)
    /\ (wr.pc \in {"func", "fallback", "done"}) =>
            wrh.sleeps = wr.attempt - 1
    /\ Exhausted =>
            (wr.attempt = wcfg.max_attempts
                /\ wrh.sleeps = wcfg.max_attempts - 1)
    /\ Unexpected =>
            /\ wr.pc = "done"
            /\ wr.outcome = [kind |-> "raise", val |-> wrh.lastExc]
            /\ wrh.fb = NoOutcome
            /\ ~wrh.exhausted
            /\ wrh.sleeps = wrh.lastExc.attempt - 1

\* C26 witness: a wrapper of three attempts with a fallback, whose first
\* attempt failed with an expected exception, ended on the second attempt
\* with an exception outside expected_exceptions, after one sleep
C26_Witness ==
    /\ wcfg.max_attempts = 3
    /\ Unexpected
    /\ wr.pc = "done"
    /\ wr.attempt = 2
    /\ wrh.sleeps = 1
    /\ wrh.invocations = 2

(***************************************************************************)
(* The fallback cache and its users.                                       *)
(***************************************************************************)
FCInit ==
    /\ now = 0
    /\ fcache = EmptyCache
    /\ max_age \in 1..MaxAge
    /\ fch = InitFCHist
    /\ CBIdle
    /\ RLIdle
    /\ WRIdle
    /\ XIdle

FCFrame == UNCHANGED <<now, max_age, cbVars, rlVars, wrVars, xVars>>

FCSet(k, v, ttl) ==
    /\ fcache' = CacheSet(fcache, max_age, k, v, ttl, now)
    /\ fch' = [lastSet |-> [fch.lastSet EXCEPT
                               ![k] = [at |-> now, ttl |-> ttl, value |-> v]],
               last |-> [op |-> "set", key |-> k, result |-> None,
                         pre |-> fcache]]
    /\ FCFrame

FCGet(k) ==
    /\ LET r == CacheGet(fcache, k, now)
       IN /\ fcache' = r.cache
          /\ fch' = [fch EXCEPT !.last = [op |-> "get", key |-> k,
                                          result |-> r.result, pre |-> fcache]]
    /\ FCFrame

FCClearExpired ==
    /\ fcache' = ClearExpired(fcache, now)
    /\ fch' = [fch EXCEPT !.last = [NoCacheOp EXCEPT !.op = "clear_expired",
                                                     !.pre = fcache]]
    /\ FCFrame

\* the administrative clear: fallback_cache.cache.clear()
FCClear ==
    /\ fcache' = EmptyCache
    /\ fch' = [lastSet |-> [k \in Keys |-> NoSet],
               last |-> [NoCacheOp EXCEPT !.op = "clear", !.pre = fcache]]
    /\ FCFrame

FCTick ==
    /\ now < FCMaxTime
    /\ now' = now + 1
    /\ fch' = [fch EXCEPT !.last = NoCacheOp]
    /\ UNCHANGED <<fcache, max_age, cbVars, rlVars, wrVars, xVars>>

FCNext ==
    \/ \E k \in Keys, v \in Values, ttl \in Ttls : FCSet(k, v, ttl)
    \/ \E k \in Keys : FCGet(k)
    \/ FCClearExpired
    \/ FCClear
    \/ FCTick

SpecCache == FCInit /\ [][FCNext]_vars

(***************************************************************************)
(* Properties of the fallback cache (SpecCache).                           *)
(***************************************************************************)
\* the last operation was get(k) and k was set before, with that ttl
GetAfterSet(k) ==
    /\ fch.last.op = "get"
    /\ fch.last.key = k
    /\ fch.lastSet[k] # NoSet

Elapsed(k) == now - fch.lastSet[k].at

\* C9 (as claimed, for the ttl >= 1 of its scenario): a get(k) at the time
\* of set(k, v, ttl) returns v; a get(k) when the time elapsed since the set
\* is >= ttl returns absent and removes k from the cache.
C9_AbsentFromTtlOn ==
    \A k \in Keys :
        (GetAfterSet(k) /\ fch.lastSet[k].ttl >= 1) =>
            /\ Elapsed(k) = 0 => fch.last.result = fch.lastSet[k].value
            /\ Elapsed(k) >= fch.lastSet[k].ttl =>
                  /\ fch.last.result = None
                  /\ fcache[k] = NoEntry

\* C9 (amended): a get(k) at the time of set(k, v, ttl) returns v, and so
\* does every get(k) up to and including the instant the lifetime given by
\* the set (ttl, or max_age where `ttl or max_age` selects it) has elapsed;
\* a get(k) when more than that has elapsed returns absent and removes k,
\* so that the size of the cache no longer counts it.
C9_AbsentAfterTtl ==
    \A k \in Keys :
        GetAfterSet(k) =>
            LET life == Lifetime(fch.lastSet[k].ttl, max_age) IN
            /\ Elapsed(k) <= life =>
                  /\ fch.last.result = fch.lastSet[k].value
                  /\ fcache[k] # NoEntry
            /\ Elapsed(k) > life =>
                  /\ fch.last.result = None
                  /\ fcache[k] = NoEntry
                  /\ CacheSize(fcache) =
                        CacheSize(fch.last.pre)
                           - (IF fch.last.pre[k] # NoEntry THEN 1 ELSE 0)

\* C9 witness: set(k, v, 1), then a get(k) two seconds later finds the
\* entry, returns absent and removes it
C9_Witness ==
    \E k \in Keys :
        /\ GetAfterSet(k)
        /\ fch.lastSet[k].ttl = 1
        /\ Elapsed(k) = 2
        /\ fch.last.pre[k] # NoEntry
        /\ fcache[k] = NoEntry
        /\ fch.last.result = None

\* C29: set(key, value, ttl) stores expiry = now + ttl for every ttl the
\* caller supplies, ttl = 0 included, and now + max_age only when ttl is
\* omitted.
C29_ExpiryIsNowPlusTtl ==
    fch.last.op = "set" =>
        LET k == fch.last.key
            ttl == fch.lastSet[k].ttl
        IN fcache[k].expiry
              = fch.lastSet[k].at + (IF ttl = NoTtl THEN max_age ELSE ttl)

\* for every ttl but 0 the expiry is as claimed
ExpiryIsNowPlusPositiveTtl ==
    (fch.last.op = "set" /\ fch.lastSet[fch.last.key].ttl # 0) =>
        LET k == fch.last.key
            ttl == fch.lastSet[k].ttl
        IN fcache[k].expiry
              = fch.lastSet[k].at + (IF ttl = NoTtl THEN max_age ELSE ttl)

\* C10: get(k) returns the stored value exactly when an entry for k exists
\* and now <= expiry, and then keeps the entry; otherwise it returns absent
\* and the entry, if there was one, is deleted.  No other key is touched.
C10_GetReturnsUnexpired ==
    fch.last.op = "get" =>
        LET k == fch.last.key
            e == fch.last.pre[k]
        IN /\ IF e # NoEntry /\ now <= e.expiry
              THEN fch.last.result = e.value /\ fcache[k] = e
              ELSE fch.last.result = None /\ fcache[k] = NoEntry
           /\ \A j \in Keys \ {k} : fcache[j] = fch.last.pre[j]

\* C10 witness: a get at now = expiry returns the value and keeps the entry
C10_Witness ==
    /\ fch.last.op = "get"
    /\ fch.last.pre[fch.last.key] # NoEntry
    /\ fch.last.pre[fch.last.key].expiry = now
    /\ fch.last.pre[fch.last.key].created < now
    /\ fch.last.result # None
    /\ fcache[fch.last.key] # NoEntry

(***************************************************************************)
(* One task calling get_token_price_data of a GeckoTerminalClient again    *)
(* and again; a request may make itself a new client.  The OHLCV request   *)
(* goes through the gecko limiter and the decorator GeckoWrapper.  The     *)
(* limiter is one of small rate and burst, so that its waits happen.       *)
(***************************************************************************)
GPInit ==
    /\ now = 0
    /\ InitBreakers
    /\ calls = [c \in Calls |-> [pc |-> "idle", svc |-> "gecko_terminal"]]
    /\ ev = NoEvent
    /\ hist = InitHist
    /\ \E rate \in 1..MaxRate, burst \in 1..MaxBurst :
          rl = NewRateLimiter(rate, burst)
    /\ rlh = InitRLHist
    /\ wcfg = GeckoWrapper
    /\ wr = IdleWrapper
    /\ wrh = InitWRHist
    /\ FCIdle
    /\ \E p \in BOOLEAN : gp = IdlePrice(p)
    /\ gph = InitGPHist
    /\ FXIdle
    /\ DBIdle
    /\ OPIdle

GPFrame ==
    UNCHANGED <<now, cb_config, calls, ev, hist, rlh, wcfg, max_age, fch, fxVars,
                dbVars, opVars>>

\* the attempts so far, one more being over
After(live, ok) ==
    IF ok \/ live = "succeeded" THEN "succeeded" ELSE "failed"

\* a live attempt of the price operation is over
GPLive(h, ok) ==
    [h EXCEPT !.live = After(h.live, ok),
              !.liveAfterRead = h.liveAfterRead \/ h.readAt # "unread"]

\* an attempt of the OHLCV wrapper is over
GPLiveOhlcv(h, ok) ==
    [GPLive(h, ok) EXCEPT !.oLive = After(h.oLive, ok)]

\* _get_fallback_price_data has called fallback_cache.get
GPReadPrice(h) == [h EXCEPT !.readAt = h.live]

\* _get_fallback_ohlcv_data has called fallback_cache.get
GPReadOhlcv(h) == [h EXCEPT !.oReadAt = h.oLive]

\* `fallback_data = self._get_fallback_price_data(token)`, then the cached
\* data is returned if there is any, else {}
GPReturnFallback(cache, h) ==
    LET r == CacheGet(cache, PriceKey, now)
    IN /\ fcache' = r.cache
       /\ gph' = GPReadPrice(h)
       /\ gp' = [gp EXCEPT !.pc = "done",
                           !.result = IF Truthy(r.result)
                                      THEN "cached" ELSE "empty"]

(***************************************************************************)
(* get_token_price_data from the return of get_ohlcv_data on: the price    *)
(* changes divide by the close of the second candle, a ZeroDivisionError   *)
(* goes to `except Exception`, which returns the fallback; otherwise the   *)
(* result is cached and returned.                                          *)
(***************************************************************************)
GPFinishWith(data, cache, h) ==
    IF data = "zero"
    THEN GPReturnFallback(cache, h)
    ELSE /\ fcache' = CacheSet(cache, max_age, PriceKey, "price", PriceTtl, now)
         /\ gph' = h
         /\ gp' = [gp EXCEPT !.pc = "done", !.result = "live"]

(***************************************************************************)
(* What follows a step of the OHLCV wrapper that left it in state w2: the  *)
(* wrapper is not over, or it raised.  get_ohlcv_data catches an Exception *)
(* and returns the cached list or []; any other exception leaves           *)
(* get_token_price_data as well.                                           *)
(***************************************************************************)
GPAfterWrapper(w2, h) ==
    IF w2.pc # "done"
    THEN /\ gp' = gp
         /\ gph' = h
         /\ fcache' = fcache
    ELSE IF ~Catches({"Exception"}, w2.outcome.val.cls)
         THEN /\ gp' = [gp EXCEPT !.pc = "done", !.result = "raised"]
              /\ gph' = h
              /\ fcache' = fcache
         ELSE LET r == CacheGet(fcache, OhlcvKey, now)
              IN GPFinishWith(IF Truthy(r.result) THEN r.result ELSE "empty",
                              r.cache, GPReadOhlcv(h))

\* get_token_price_data is called: a token that is not in token_pools is
\* looked up in the cache first, then auto-discovery is awaited; for a
\* token of the table get_token_pools is awaited
GPCall ==
    /\ gp.pc \in {"idle", "done"}
    /\ IF ~gp.known
       THEN LET r == CacheGet(fcache, PriceKey, now)
            IN /\ fcache' = r.cache
               /\ gph' = GPReadPrice(InitGPHist)
               /\ gp' = IF Truthy(r.result)
                        THEN [gp EXCEPT !.pc = "done", !.result = "cached"]
                        ELSE [gp EXCEPT !.pc = "discover", !.result = None]
       ELSE /\ gp' = [gp EXCEPT !.pc = "pools", !.result = None]
            /\ gph' = InitGPHist
            /\ fcache' = fcache
    /\ UNCHANGED <<cb_state, rl, wr, wrh>>
    /\ GPFrame

\* search_token_pools returns: without a pool the call returns {}; with
\* one the token enters token_pools and get_token_price_data is called again
GPDiscover(found) ==
    /\ gp.pc = "discover"
    /\ gph' = GPLive(gph, found)
    /\ gp' = IF found
             THEN [gp EXCEPT !.pc = "pools", !.known = TRUE]
             ELSE [gp EXCEPT !.pc = "done", !.result = "empty"]
    /\ UNCHANGED <<cb_state, rl, wr, wrh, fcache>>
    /\ GPFrame

\* get_token_pools returns: pools, or [] (also when its request failed);
\* without pools the fallback is returned, with pools get_ohlcv_data starts
GPPools(ok) ==
    /\ gp.pc = "pools"
    /\ IF ok
       THEN /\ gp' = [gp EXCEPT !.pc = "token"]
            /\ gph' = GPLive(gph, TRUE)
            /\ fcache' = fcache
       ELSE GPReturnFallback(fcache, GPLive(gph, FALSE))
    /\ UNCHANGED <<cb_state, rl, wr, wrh>>
    /\ GPFrame

\* wait_for_token polls the limiter; with a token the decorated function is
\* called and attempt 1 starts
GPToken ==
    /\ gp.pc = "token"
    /\ LET r == Acquire(rl, 1, now)
       IN /\ rl' = r.limiter
          /\ IF r.ok
             THEN /\ StartAttempt([IdleWrapper EXCEPT !.attempt = 1], InitWRHist)
                  /\ IF wr'.pc = "done"
                     THEN GPAfterWrapper(wr', GPLiveOhlcv(gph, FALSE))
                     ELSE /\ gp' = [gp EXCEPT !.pc = "ohlcv"]
                          /\ gph' = gph
                          /\ fcache' = fcache
             ELSE UNCHANGED <<cb_state, wr, wrh, gp, gph, fcache>>
    /\ GPFrame

\* asyncio.sleep(delay) of the wrapper is over: the next attempt starts
GPWake ==
    /\ gp.pc = "ohlcv"
    /\ wr.pc = "sleep"
    /\ StartAttempt([wr EXCEPT !.attempt = wr.attempt + 1], wrh)
    /\ IF wr'.pc = "func"
       THEN UNCHANGED <<gp, gph, fcache>>
       ELSE GPAfterWrapper(wr', GPLiveOhlcv(gph, FALSE))
    /\ UNCHANGED rl
    /\ GPFrame

\* the request of _get_ohlcv_with_retry is answered with a list: the list
\* is cached, the breaker records a success, get_ohlcv_data returns it
GPFuncReturn(data) ==
    /\ gp.pc = "ohlcv"
    /\ wr.pc = "func"
    /\ cb_state' = [cb_state EXCEPT ![wcfg.breaker] =
                       OnSuccess(cb_state[wcfg.breaker])]
    /\ wr' = [wr EXCEPT !.pc = "done",
                 !.outcome = [kind |-> "return",
                              val |-> [cls |-> "value", by |-> "func",
                                       attempt |-> wr.attempt]]]
    /\ wrh' = wrh
    /\ GPFinishWith(data,
                    CacheSet(fcache, max_age, OhlcvKey, data, OhlcvTtl, now),
                    GPLiveOhlcv(gph, TRUE))
    /\ UNCHANGED rl
    /\ GPFrame

\* the request raises an exception of class cls
GPFuncRaise(cls) ==
    /\ gp.pc = "ohlcv"
    /\ wr.pc = "func"
    /\ cb_state' = [cb_state EXCEPT ![wcfg.breaker] =
                       AfterRaise(cb_state[wcfg.breaker],
                                  cb_config[wcfg.breaker], now, cls)]
    /\ LET x == Handle(wr, wrh, [cls |-> cls, by |-> "func",
                                 attempt |-> wr.attempt])
       IN /\ wr' = x.wr
          /\ wrh' = x.wrh
          /\ GPAfterWrapper(x.wr, GPLiveOhlcv(gph, FALSE))
    /\ UNCHANGED rl
    /\ GPFrame

\* a request handler makes itself a new GeckoTerminalClient()
GPNewClient ==
    /\ gp.pc \in {"idle", "done"}
    /\ gp' = IdlePrice(gp.predefined)
    /\ UNCHANGED <<cb_state, rl, wr, wrh, fcache, gph>>
    /\ GPFrame

GPTick ==
    /\ Tick
    /\ UNCHANGED <<cbVars, rlVars, wrVars, fcVars, xVars>>

GPNext ==
    \/ GPCall
    \/ \E found \in BOOLEAN : GPDiscover(found)
    \/ \E ok \in BOOLEAN : GPPools(ok)
    \/ GPToken
    \/ GPWake
    \/ \E data \in OhlcvLists : GPFuncReturn(data)
    \/ \E cls \in FuncExceptions : GPFuncRaise(cls)
    \/ GPNewClient
    \/ GPTick

SpecPrice == GPInit /\ [][GPNext]_vars

(***************************************************************************)
(* Properties of the clients' use of the fallback cache (SpecPrice).       *)
(***************************************************************************)
\* C11 (as claimed): a client operation reads the fallback cache for its
\* key only after live attempts of the operation were made and every one of
\* them failed, and makes no live attempt after reading it; for
\* get_token_price_data and its key, and for get_ohlcv_data and its key.
C11_CacheReadOnlyAfterLiveFailed ==
    /\ gph.readAt \in {"unread", "failed"}
    /\ ~gph.liveAfterRead
    /\ gph.oReadAt \in {"unread", "failed"}

(***************************************************************************)
(* One task calling extract_features again and again, on the extractor of  *)
(* an ingestion run or request; a new run makes itself a new extractor.    *)
(* The classifier call goes through the groq limiter (one of small rate    *)
(* and burst, so that its waits happen) and the decorator GroqWrapper.     *)
(* The value of a cache entry of a classification is the dictionary        *)
(* cprobs[key]; the entry itself holds the mark "probs".                   *)
(***************************************************************************)
FXInit ==
    /\ now = 0
    /\ InitBreakers
    /\ calls = [c \in Calls |-> [pc |-> "idle", svc |-> "groq_api"]]
    /\ ev = NoEvent
    /\ hist = InitHist
    /\ \E rate \in 1..MaxRate : rl = NewRateLimiter(rate, 1)
    /\ rlh = InitRLHist
    /\ WRIdle
    /\ FCIdle
    /\ FXIdle
    /\ GPIdle
    /\ DBIdle
    /\ OPIdle

FXFrame ==
    UNCHANGED <<now, cb_config, calls, ev, hist, rlh, wcfg, max_age, fch, gpVars,
                dbVars, opVars>>

\* exceptions of the provider's SDK
ProviderExceptions == {"HTTPError"}

\* faulty variant of ExtractCatches: only a ValueError is caught
ExtractCatchesValueError(cls) == Catches({"ValueError"}, cls)

\* `except Exception as e` of extract_features
ExtractCatches(cls) == Catches({"Exception"}, cls)

(***************************************************************************)
(* _get_fallback_event_classification: the cached dictionary if there is   *)
(* one, else the rule-based classification, which is cached.  The slices   *)
(* of a title that is None raise a TypeError.                              *)
(***************************************************************************)
FallbackClassification(a, cache, cp) ==
    IF a = "notitle"
    THEN [cache |-> cache, cprobs |-> cp, probs |-> AllZero, path |-> "raise"]
    ELSE LET k == ClassificationKey(a)
             r == CacheGet(cache, k, now)
             rule == RuleBased(Scores(a))
         IN IF r.result # None
            THEN [cache |-> r.cache, cprobs |-> cp, probs |-> cp[k],
                  path |-> "cached"]
            ELSE [cache |-> CacheSet(r.cache, max_age, k, "probs",
                                     ClassificationTtl, now),
                  cprobs |-> [cp EXCEPT ![k] = rule], probs |-> rule,
                  path |-> "rule"]

\* the except clause of _classify_event
ClassifyFailed(a, cache, cp) ==
    LET f == FallbackClassification(a, cache, cp)
    IN IF f.path # "raise" /\ Positive(SumValues(f.probs))
       THEN f
       ELSE [f EXCEPT !.probs = IntelligentDefault(a), !.path = "default"]

\* _calculate_novelty
Novelty(a, hashes) ==
    IF a \notin Hashed THEN 50
    ELSE IF a \in hashes THEN 0 ELSE 100

\* extract_features from the return of _classify_event on
FXFinish(f) ==
    LET a == fx.article IN
    /\ fx' = [fx EXCEPT
                 !.pc = "done",
                 !.content_hashes = IF a \in Hashed
                                    THEN fx.content_hashes \cup {a}
                                    ELSE fx.content_hashes,
                 !.result = Features(f.probs, Novelty(a, fx.content_hashes))]
    /\ fcache' = f.cache
    /\ cprobs' = f.cprobs
    /\ fxh' = [fxh EXCEPT !.path = f.path,
                          !.seen = IF a \in Hashed THEN fxh.seen \cup {a}
                                   ELSE fxh.seen]

\* an exception of class cls reaches the try of extract_features
FXError(cls) ==
    /\ fx' = IF ExtractCatches(cls)
             THEN [fx EXCEPT !.pc = "done", !.result = ErrorFeatures]
             ELSE [fx EXCEPT !.pc = "done", !.raised = cls]
    /\ fxh' = [fxh EXCEPT !.path = "error"]
    /\ UNCHANGED <<fcache, cprobs>>

\* what follows a step of the wrapper that left it in state w2
FXAfterWrapper(w2, h) ==
    IF w2.pc # "done"
    THEN /\ fx' = fx
         /\ fxh' = h
         /\ UNCHANGED <<fcache, cprobs>>
    ELSE IF Catches({"Exception"}, w2.outcome.val.cls)
         THEN FXFinish(ClassifyFailed(fx.article, fcache, cprobs))
         ELSE FXError(w2.outcome.val.cls)

\* extract_features(article_data, token) up to its first suspension
FXCall(a) ==
    /\ fx.pc \in {"idle", "done"}
    /\ fxh.calls < MaxExtracts
    /\ LET c == [fx EXCEPT !.pc = "token", !.article = a,
                           !.result = NoFeatures, !.raised = None]
           h == [fxh EXCEPT !.calls = fxh.calls + 1, !.path = None,
                            !.repeat = (a \in fxh.seen),
                            !.malformed = FALSE, !.counted = FALSE]
       IN CASE a = "notdict" ->
                 /\ fx' = IF ExtractCatches("AttributeError")
                          THEN [c EXCEPT !.pc = "done", !.result = ErrorFeatures]
                          ELSE [c EXCEPT !.pc = "done",
                                         !.raised = "AttributeError"]
                 /\ fxh' = [h EXCEPT !.path = "error"]
                 /\ UNCHANGED <<fcache, cprobs>>
            [] a \in {"short", "notitle"} ->
                 LET f == IF a = "short"
                          THEN FallbackClassification(a, fcache, cprobs)
                          ELSE ClassifyFailed(a, fcache, cprobs)
                 IN /\ fx' = [c EXCEPT
                                 !.pc = "done",
                                 !.content_hashes =
                                     IF a \in Hashed
                                     THEN fx.content_hashes \cup {a}
                                     ELSE fx.content_hashes,
                                 !.result =
                                     Features(f.probs,
                                              Novelty(a, fx.content_hashes))]
                    /\ fcache' = f.cache
                    /\ cprobs' = f.cprobs
                    /\ fxh' = [h EXCEPT !.path = f.path,
                                        !.seen = IF a \in Hashed
                                                 THEN fxh.seen \cup {a}
                                                 ELSE fxh.seen]
            [] a = "long" ->
                 /\ fx' = c
                 /\ fxh' = h
                 /\ UNCHANGED <<fcache, cprobs>>
    /\ UNCHANGED <<cb_state, rl, wr, wrh>>
    /\ FXFrame

\* wait_for_token polls the limiter; with a token _classify_event_with_retry
\* is called and attempt 1 starts
FXToken ==
    /\ fx.pc = "token"
    /\ LET r == Acquire(rl, 1, now)
       IN /\ rl' = r.limiter
          /\ IF r.ok
             THEN /\ StartAttempt([IdleWrapper EXCEPT !.attempt = 1], InitWRHist)
                  /\ IF wr'.pc = "done"
                     THEN FXAfterWrapper(wr', fxh)
                     ELSE /\ fx' = [fx EXCEPT !.pc = "classify"]
                          /\ UNCHANGED <<fxh, fcache, cprobs>>
             ELSE UNCHANGED <<cb_state, wr, wrh, fx, fxh, fcache, cprobs>>
    /\ FXFrame

\* asyncio.sleep(delay) of the wrapper is over: the next attempt starts
FXWake ==
    /\ fx.pc = "classify"
    /\ wr.pc = "sleep"
    /\ StartAttempt([wr EXCEPT !.attempt = wr.attempt + 1], wrh)
    /\ FXAfterWrapper(wr', [fxh EXCEPT !.malformed = FALSE,
                                       !.counted = FALSE])
    /\ UNCHANGED rl
    /\ FXFrame

\* the provider answers with a JSON object: it is parsed, cached and
\* returned, the breaker records a success
FXAnswer(p) ==
    /\ fx.pc = "classify"
    /\ wr.pc = "func"
    /\ cb_state' = [cb_state EXCEPT ![wcfg.breaker] =
                       OnSuccess(cb_state[wcfg.breaker])]
    /\ wr' = [wr EXCEPT !.pc = "done",
                 !.outcome = [kind |-> "return",
                              val |-> [cls |-> "value", by |-> "func",
                                       attempt |-> wr.attempt]]]
    /\ wrh' = wrh
    /\ LET k == ClassificationKey(fx.article)
           probs == ParsedAnswer[p]
       IN FXFinish([cache |-> CacheSet(fcache, max_age, k, "probs",
                                       ClassificationTtl, now),
                    cprobs |-> [cprobs EXCEPT ![k] = probs],
                    probs |-> probs, path |-> "live"])
    /\ UNCHANGED rl
    /\ FXFrame

\* _classify_event_with_retry raises an exception of class cls: the breaker
\* and the wrapper handle it
FXRaise(cls, h) ==
    /\ fx.pc = "classify"
    /\ wr.pc = "func"
    /\ cb_state' = [cb_state EXCEPT ![wcfg.breaker] =
                       AfterRaise(cb_state[wcfg.breaker],
                                  cb_config[wcfg.breaker], now, cls)]
    /\ LET x == Handle(wr, wrh, [cls |-> cls, by |-> "func",
                                 attempt |-> wr.attempt])
       IN /\ wr' = x.wr
          /\ wrh' = x.wrh
          /\ FXAfterWrapper(x.wr, h)
    /\ UNCHANGED rl
    /\ FXFrame

\* the provider answers with something that is no JSON object: the function
\* raises ValueError, which `except Exception as api_error` raises again
FXMalformed(m) ==
    FXRaise("ValueError",
            [fxh EXCEPT !.malformed = TRUE,
                        !.counted = (cb_state'[wcfg.breaker].failure_count
                                       # cb_state[wcfg.breaker].failure_count)])

\* the provider's SDK raises
FXProviderRaise(cls) ==
    FXRaise(cls, [fxh EXCEPT !.malformed = FALSE, !.counted = FALSE])

\* an ingestion run or a request makes itself a new FeatureExtractor()
FXNewExtractor ==
    /\ fx.pc \in {"idle", "done"}
    /\ fx' = NewExtractor
    /\ UNCHANGED <<cb_state, rl, wr, wrh, fcache, cprobs, fxh>>
    /\ FXFrame

\* clear_novelty_cache
FXClearNovelty ==
    /\ fx.pc \in {"idle", "done"}
    /\ fx' = [fx EXCEPT !.content_hashes = {}]
    /\ fxh' = [fxh EXCEPT !.seen = {}]
    /\ UNCHANGED <<cb_state, rl, wr, wrh, fcache, cprobs>>
    /\ FXFrame

\* time passes; past MaxTime only while the call waits for a token
FXTick ==
    /\ \/ now < MaxTime
       \/ fx.pc = "token" /\ ~Acquire(rl, 1, now).ok
    /\ now' = now + 1
    /\ UNCHANGED <<cbVars, rlVars, wrVars, fcVars, xVars>>

\* the steps of a call in progress
FXStep ==
    \/ FXToken
    \/ FXWake
    \/ \E p \in Payloads : FXAnswer(p)
    \/ \E m \in MalformedAnswers : FXMalformed(m)
    \/ \E cls \in ProviderExceptions : FXProviderRaise(cls)

FXNext ==
    \/ \E a \in Articles : FXCall(a)
    \/ FXStep
    \/ FXNewExtractor
    \/ FXClearNovelty
    \/ FXTick

SpecExtract == FXInit /\ [][FXNext]_vars

\* one breaker and one limiter, for the properties of progress
FXFairInit ==
    /\ FXInit
    /\ cb_config["groq_api"].failure_threshold = 1
    /\ cb_config["groq_api"].timeout = 1
    /\ rl.rate = MaxRate

\* the event loop runs the call whenever it can go on, and time passes
FairSpecExtract ==
    /\ FXFairInit
    /\ [][FXNext]_vars
    /\ WF_vars(FXStep)
    /\ WF_vars(FXTick)

(***************************************************************************)
(* Properties of the feature extractor (SpecExtract, FairSpecExtract).     *)
(***************************************************************************)
\* C12 (as claimed): after a malformed answer of the provider the
\* classification is not attempted again: one provider call was made, no
\* backoff sleep was begun, the breaker's failure_count is what it was before
\* the answer, and the call went on to its rule-based or default result.
C12_MalformedNotRetried ==
    fxh.malformed =>
        /\ wrh.invocations = 1
        /\ wrh.sleeps = 0
        /\ ~fxh.counted
        /\ fx.pc = "done"
        /\ fxh.path \in {"cached", "rule", "default"}

\* every field of an ArticleFeatures value is set
Complete(f) ==
    /\ DOMAIN f.event_probs = EventTypes
    /\ f.sentiment_score \in -100..100
    /\ f.source_trust >= 0
    /\ f.recency_decay >= 0
    /\ f.novelty_score >= 0
    /\ f.proof_bonus >= 0
    /\ f.final_weight >= 0

\* an extract_features call is in progress
Extracting == fx.pc \in {"token", "classify"}

\* C13: extract_features never raises and every call of it ends: whatever
\* the article and whatever the provider does (a malformed answer or an
\* exception on every attempt, the breaker OPEN), the call is over at some
\* time and has then returned an ArticleFeatures value with its seven fields
\* set.
C13_AlwaysReturnsFeatures ==
    /\ [](fx.raised = None /\ (fx.pc = "done" => Complete(fx.result)))
    /\ (Extracting ~> fx.pc = "done")

\* C13 witness: a call is over whose two attempts were a provider exception
\* and a rejection by the OPEN breaker, with the features of the fallback
C13_Witness ==
    /\ fx.pc = "done"
    /\ fx.article = "long"
    /\ wrh.exhausted
    /\ wrh.rejected
    /\ wrh.invocations = 1
    /\ cb_state["groq_api"].state = "OPEN"
    /\ fxh.path = "rule"
    /\ Complete(fx.result)

\* a probability: a finite number of [0, 1]
IsProbability(v) == v.den > 0 /\ 0 <= v.num /\ v.num <= v.den

\* the nine event types as keys, every value in [0, 1], the values sum to 1
IsDistribution(probs) ==
    /\ DOMAIN probs = EventTypes
    /\ \A k \in EventTypes : IsProbability(probs[k])
    /\ LET total == SumValues(probs)
       IN total.den > 0 /\ total.num = total.den

\* C14 (as claimed): the event_probs of the ArticleFeatures that
\* extract_features returns has exactly the nine event types as keys, values
\* in [0, 1] and the sum 1, on every path: live, cached, rule-based, default
\* and the exception default.
C14_EventProbsIsDistribution ==
    (fx.pc = "done" /\ fx.raised = None) => IsDistribution(fx.result.event_probs)

\* C19 (as claimed): content of at least the minimum length scores the
\* novelty 1.0 when the process sees it for the first time since the novelty
\* cache was last cleared, and 0.0 when the process has seen it since then,
\* whichever ingestion run made the earlier call.
C19_NoveltyAcrossRuns ==
    (fx.pc = "done" /\ fx.article \in Hashed /\ fxh.path # "error") =>
        fx.result.novelty_score = (IF fxh.repeat THEN 0 ELSE 100)

(***************************************************************************)
(* The aggregator (SpecBuckets).  From the call of create_or_update_bucket *)
(* to its return no await suspends the task: aggregate_token_bucket and    *)
(* _calculate_hype_velocity are coroutines that await nothing that         *)
(* suspends and the Session is synchronous, so the event loop runs one     *)
(* call as one step, also while several ingestion tasks are in progress.   *)
(***************************************************************************)
AGInit ==
    /\ now = 0
    /\ CBIdle
    /\ RLIdle
    /\ WRIdle
    /\ FCIdle
    /\ GPIdle
    /\ FXIdle
    /\ INIdle
    /\ AGIdle
    /\ OPIdle

\* the bucket of the same token with the greatest earlier bucket_ts, as the
\* table holds it
StoredPredecessor(store, token, ts) ==
    LET earlier == {b \in store : b.token = token /\ b.bucket_ts < ts}
    IN IF earlier = {} THEN NoPrev
       ELSE LET p == CHOOSE b \in earlier :
                         \A c \in earlier : c.bucket_ts <= b.bucket_ts
            IN [exists |-> TRUE, heat |-> p.agg.narrative_heat]

\* create_or_update_bucket(token, articles, bucket_ts), called by any of
\* the tasks
CreateOrUpdateBucket(token, ts, arts) ==
    /\ agh.calls < MaxUpserts
    /\ LET features == AggregateTokenBucket(bstore, token, ts, arts)
           rows == Upsert(bstore, token, ts, features)
           committed == UniqueBuckets(rows)
           prev == StoredPredecessor(bstore, token, ts)
           this == [token |-> token, bucket_ts |-> ts,
                    articles |-> arts, prev |-> prev, out |-> features,
                    raised |-> ~committed]
       IN /\ bstore' = IF committed THEN rows ELSE bstore
          /\ agh' = [calls |-> agh.calls + 1,
                     last |-> IF committed
                              THEN [agh.last EXCEPT ![token, ts] = this]
                              ELSE agh.last,
                     call |-> this,
                     before |-> agh.last[token, ts]]
    /\ UNCHANGED <<now, cbVars, rlVars, wrVars, fcVars, gpVars, fxVars,
                   inVars, opVars>>

AGNext ==
    \E token \in Tokens, ts \in BucketTimes, arts \in ArticleLists :
        CreateOrUpdateBucket(token, ts, arts)

SpecBuckets == AGInit /\ [][AGNext]_vars

(***************************************************************************)
(* Properties of the aggregator (SpecBuckets).                             *)
(***************************************************************************)
\* the sum of the values of an event_distribution
DistributionSum(dist) == Total(DOMAIN dist, dist)

\* C15 (as claimed): the values of the event_distribution that
\* aggregate_token_bucket returns sum to 1 or to 0, and to 0 only when the
\* total final_weight of the articles is 0.
C15_DistributionSumsToOneOrZero ==
    agh.calls > 0 =>
        LET s == DistributionSum(agh.call.out.event_distribution)
        IN /\ s.den > 0
           /\ s.num = 0 \/ s.num = s.den
           /\ s.num = 0 => TotalWeight(agh.call.articles) = 0

\* the latest call has the arguments of the call before it for the pair
Repeated ==
    /\ agh.before # NoBucketCall
    /\ agh.before.articles = agh.call.articles

\* C16 (as claimed): a call of aggregate_token_bucket with the arguments of
\* an earlier call returns what the earlier call returned, whatever was
\* done to the table in between.
C16_SameArgumentsSameOutput ==
    Repeated => agh.call.out = agh.before.out

\* C16 (amended): a call with the arguments of an earlier call returns what
\* the earlier call returned when the bucket of the same token with the
\* greatest earlier bucket_ts has the same stored narrative_heat at both
\* calls (or there is none at both).
C16_SameOutputWhenPredecessorSame ==
    (Repeated /\ agh.call.prev = agh.before.prev) =>
        agh.call.out = agh.before.out

\* C16 witness: a call was repeated after a call for another pair; at both
\* calls the bucket before it held the same heat, and the outputs are the
\* same
C16_Witness ==
    /\ agh.calls = 3
    /\ Repeated
    /\ agh.call.prev.exists
    /\ agh.call.prev = agh.before.prev
    /\ agh.call.out = agh.before.out
    /\ agh.call.out.hype_velocity # 0

\* the rows of a pair
RowsOf(token, ts) == {b \in bstore : b.token = token /\ b.bucket_ts = ts}

\* C17: the table holds at most one Bucket per (token, bucket_ts): none for
\* a pair without a completed call, and otherwise one whose aggregate
\* fields are those that the last completed call for the pair computed.
C17_OneBucketPerPair ==
    \A token \in Tokens, ts \in BucketTimes :
        /\ Cardinality(RowsOf(token, ts)) <= 1
        /\ agh.last[token, ts] = NoBucketCall <=> RowsOf(token, ts) = {}
        /\ \A b \in RowsOf(token, ts) : b.agg = agh.last[token, ts].out

\* C17 witness: a second call for a pair has completed, with other features
\* than the first, after a call for the other token, and the table holds
\* the bucket that the first call created with the features of the second
C17_Witness ==
    /\ agh.calls = 3
    /\ agh.before # NoBucketCall
    /\ agh.before.out # agh.call.out
    /\ ~agh.call.raised
    /\ Cardinality(bstore) = 2
    /\ \E b \in bstore : /\ b.id = 1
                         /\ b.token = agh.call.token
                         /\ b.bucket_ts = agh.call.bucket_ts
                         /\ b.agg = agh.call.out

\* the denominator max(|previous_heat|, 1) in thousandths
VelocityDenominator(prev) ==
    IF Abs(prev.heat) > 1000 THEN Abs(prev.heat) ELSE 1000

INInit ==
    /\ now = 0
    /\ CBIdle
    /\ RLIdle
    /\ WRIdle
    /\ FCIdle
    /\ GPIdle
    /\ FXIdle
    /\ AGIdle
    /\ INIdle
    /\ OPIdle

INFrame == UNCHANGED <<now, cbVars, rlVars, wrVars, fcVars, gpVars, fxVars,
                       agh, opVars>>

\* the query of the existence check: Article.url == scraped_article.url
Exists(db, u) == \E r \in db : r.url = u

\* the features that extract_features returns for the article of a url, as
\* the Article row keeps them
ExtractedAs(u) ==
    CHOOSE a \in StoredArticles : a.url = (IF u = "u1" THEN "bull" ELSE "bear")

\* _get_bucket_timestamp(article.created_at) of the articles of the run
IngestBucket == 1

\* process_token_articles: the articles of the token are grouped by bucket
\* and create_or_update_bucket is called for each bucket
ProcessTokenArticles(db, store, token) ==
    LET arts == {ExtractedAs(r.url) : r \in {x \in db : x.token = token}}
    IN IF arts = {} THEN store
       ELSE Upsert(store, token, IngestBucket,
                   AggregateTokenBucket(store, token, IngestBucket, arts))

\* the end of process_token_ingestion, after the loop: db.commit() inserts
\* the added articles in one transaction; a url that the table holds by
\* then violates the unique constraint of Article.url, the commit raises
\* IntegrityError and `except Exception as db_error` rolls back
CommitArticles(task, db, store) ==
    IF task.processed_count = 0
    THEN [task |-> [task EXCEPT !.pc = "done", !.outcome = "nothing_new"],
          db |-> db, store |-> store]
    ELSE LET dups == {u \in task.added : Exists(db, u)}
         IN IF dups # {}
            THEN [task |-> [task EXCEPT !.pc = "done", !.dups = dups,
                                        !.outcome = "rolled_back"],
                  db |-> db, store |-> store]
            ELSE LET rows == db \cup {[url |-> u, token |-> task.token] :
                                         u \in task.added}
                 IN [task |-> [task EXCEPT !.pc = "done",
                                           !.committed = task.added,
                                           !.aggregated = TRUE,
                                           !.outcome = "completed"],
                     db |-> rows,
                     store |-> ProcessTokenArticles(rows, store, task.token)]

\* the loop over scraped_articles from article i up to the next await of
\* extract_features, or to the end of the function: an article whose url
\* the table holds is skipped; title[:50] of an article without title
\* raises TypeError, which the except of the loop body counts
RECURSIVE RunFrom(_, _, _, _)
RunFrom(task, i, db, store) ==
    IF i > Len(task.batch) THEN CommitArticles(task, db, store)
    ELSE LET u == task.batch[i]
         IN IF Exists(db, u) THEN RunFrom(task, i + 1, db, store)
            ELSE IF u \in Untitled
            THEN RunFrom([task EXCEPT !.failed_count = @ + 1], i + 1, db,
                         store)
            ELSE [task |-> [task EXCEPT !.pc = "extract", !.i = i],
                  db |-> db, store |-> store]

\* the task is started for a token and awaits get_token_articles
INStart(t, token) ==
    /\ ing[t].pc = "idle"
    /\ ing' = [ing EXCEPT ![t] = [@ EXCEPT !.pc = "fetch",
                                           !.token = token]]
    /\ UNCHANGED <<adb, bstore>>
    /\ INFrame

\* get_token_articles returns the batch; without articles the task ends
INFetched(t, batch) ==
    /\ ing[t].pc = "fetch"
    /\ LET r == IF batch = <<>>
                THEN [task |-> [ing[t] EXCEPT !.pc = "done",
                                              !.outcome = "no_articles"],
                      db |-> adb, store |-> bstore]
                ELSE RunFrom([ing[t] EXCEPT !.batch = batch], 1, adb,
                             bstore)
       IN /\ ing' = [ing EXCEPT ![t] = r.task]
          /\ adb' = r.db
          /\ bstore' = r.store
    /\ INFrame

\* extract_features returns (it always returns features): the Article is
\* added to the session, and the loop goes on
INExtracted(t) ==
    /\ ing[t].pc = "extract"
    /\ LET task == [ing[t] EXCEPT
                       !.added = @ \cup {ing[t].batch[ing[t].i]},
                       !.processed_count = @ + 1]
           r == RunFrom(task, ing[t].i + 1, adb, bstore)
       IN /\ ing' = [ing EXCEPT ![t] = r.task]
          /\ adb' = r.db
          /\ bstore' = r.store
    /\ INFrame

INNext ==
    \E t \in Ingestions :
        \/ \E token \in Tokens : INStart(t, token)
        \/ \E batch \in Batches : INFetched(t, batch)
        \/ INExtracted(t)

SpecIngest == INInit /\ [][INNext]_vars

(***************************************************************************)
(* Properties of the ingestion (SpecIngest).                               *)
(***************************************************************************)
\* C20: when a task has ended, the articles it added whose url the table
\* did not hold at its commit are committed by it (a duplicate url makes
\* only its own article be skipped), and if there is such an article the
\* bucket aggregation has run.
C20_DuplicateSkipsOnlyThatArticle ==
    \A t \in Ingestions :
        ing[t].pc = "done" =>
            LET fresh == ing[t].added \ ing[t].dups
            IN /\ ing[t].committed = fresh
               /\ fresh # {} => ing[t].aggregated

(***************************************************************************)
(* Specification SpecDelay: calculate_delay is called for a RetryConfig,   *)
(* for any attempt, any number of times.                                   *)
(***************************************************************************)
DLInit ==
    /\ now = 0
    /\ CBIdle
    /\ RLIdle
    /\ WRIdle
    /\ FCIdle
    /\ GPIdle
    /\ FXIdle
    /\ DBIdle
    /\ MLIdle
    /\ HTIdle
    /\ WTIdle
    /\ REIdle
    /\ \E config \in RetryConfigs :
          dl = [config |-> config,
                delay |-> [a \in DelayAttempts |-> NoDelay]]

\* delay = calculate_delay(attempt, retry_config)
DLCalculate(attempt, factor) ==
    /\ dl' = [dl EXCEPT
                 !.delay[attempt] = CalculateDelay(attempt, dl.config, factor)]
    /\ UNCHANGED <<now, cbVars, rlVars, wrVars, fcVars, gpVars, fxVars,
                   dbVars, ml, ht, wt, reg>>

DLNext ==
    \E attempt \in DelayAttempts, factor \in JitterFactors :
        DLCalculate(attempt, factor)

SpecDelay == DLInit /\ [][DLNext]_vars

(***************************************************************************)
(* Properties of calculate_delay (SpecDelay).                              *)
(***************************************************************************)
\* the delay of the formula of a strategy, in milliseconds
FormulaDelay(attempt, config) ==
    LET grown == config.base_delay
                     * Power(config.exponential_base, attempt - 1)
        linear == config.base_delay * attempt
    IN CASE config.backoff_strategy = "exponential" ->
                IF grown < config.max_delay THEN grown ELSE config.max_delay
         [] config.backoff_strategy = "linear" ->
                IF linear < config.max_delay THEN linear ELSE config.max_delay
         [] config.backoff_strategy = "fixed" -> config.base_delay

\* the delays of the attempts 1..4 with base_delay 1, exponential_base 2,
\* max_delay 8
ExampleDelays == <<1000, 2000, 4000, 8000>>

IsExample(config) ==
    /\ config.backoff_strategy = "exponential"
    /\ config.base_delay = 1000
    /\ config.exponential_base = 2
    /\ config.max_delay = 8000
    /\ ~config.jitter

\* C21: without jitter calculate_delay returns the delay of the formula of
\* the strategy for every attempt; the example config gives 1, 2, 4, 8
\* seconds for the attempts 1..4; the exponential and the linear delays do
\* not decrease with the attempt and do not exceed max_delay.
C21_DelayFollowsFormula ==
    ~dl.config.jitter =>
        \A a \in DelayAttempts :
            dl.delay[a] # NoDelay =>
                /\ dl.delay[a] = FormulaDelay(a, dl.config)
                /\ (IsExample(dl.config) /\ a <= 4) =>
                       dl.delay[a] = ExampleDelays[a]
                /\ dl.config.backoff_strategy # "fixed" =>
                       /\ dl.delay[a] <= dl.config.max_delay
                       /\ \A b \in DelayAttempts :
                              (a < b /\ dl.delay[b] # NoDelay) =>
                                  dl.delay[a] <= dl.delay[b]

\* C21 witness: the delays of the attempts 1..4 of the example config have
\* been calculated
C21_Witness ==
    /\ IsExample(dl.config)
    /\ \A a \in 1..4 : dl.delay[a] = ExampleDelays[a]

(***************************************************************************)
(* Specification SpecEstimate: the rule-based default estimator is applied *)
(* to a bucket_data.                                                       *)
(***************************************************************************)
ESInit ==
    /\ now = 0
    /\ CBIdle
    /\ RLIdle
    /\ WRIdle
    /\ FCIdle
    /\ GPIdle
    /\ FXIdle
    /\ DBIdle
    /\ DLIdle
    /\ HTIdle
    /\ WTIdle
    /\ REIdle
    /\ \E bucket \in BucketInputs :
          ml = EmptyStore(bucket)

OPFrame == UNCHANGED <<now, cbVars, rlVars, wrVars, fcVars, gpVars, fxVars,
                       dbVars, ht, wt, reg>>

\* self._get_intelligent_default_prediction(bucket_data)
ESEstimate ==
    /\ ml.result = NoPrediction
    /\ ml' = [ml EXCEPT !.result = IntelligentDefaultPrediction(ml.bucket)]
    /\ UNCHANGED dl
    /\ OPFrame

ESNext == ESEstimate

SpecEstimate == ESInit /\ [][ESNext]_vars

(***************************************************************************)
(* Properties of the default estimator (SpecEstimate).                     *)
(***************************************************************************)
\* a field is 0: the number 0, None or missing
IsZeroField(f) == f.kind \in {"None", "missing"} \/ f = Number(0)

\* C22: the default estimator returns a probability_up within [0.1, 0.9]
\* for every bucket_data, and 0.5 when narrative_heat, risk_polarity and
\* hype_velocity are 0 and consensus is at most 0.5.
C22_DefaultWithinLimits ==
    ml.result # NoPrediction =>
        /\ ml.result.probability_up >= 10000
        /\ ml.result.probability_up <= 90000
        /\ ( /\ IsZeroField(ml.bucket.narrative_heat)
             /\ IsZeroField(ml.bucket.risk_polarity)
             /\ IsZeroField(ml.bucket.hype_velocity)
             /\ \/ ml.bucket.consensus.kind = "None"
                \/ /\ ml.bucket.consensus.kind = "number"
                   /\ ml.bucket.consensus.v <= 500 )
           => ml.result.probability_up = 50000

\* C22 witness: every adjustment pulls down, the sum before the clamp is
\* 0.05 and 0.1 is returned
C22_Witness ==
    /\ ml.bucket.narrative_heat = Number(-5000)
    /\ ml.bucket.risk_polarity = Number(-1000)
    /\ ml.bucket.hype_velocity = Number(-5000)
    /\ ml.bucket.consensus = Number(0)
    /\ ml.result.probability_up = 10000
    /\ ml.result.source = "default"

(***************************************************************************)
(* Specification SpecPredict: buckets and labels are stored, and predict   *)
(* is called on a new MLEngine (routes.py creates one for every request).  *)
(* predict contains no await that suspends: it is one step.                *)
(***************************************************************************)
PredictInputs ==
    {b \in BucketInputs :
        /\ b.narrative_heat \in {Number(1000), Special("None")}
        /\ b.consensus = Number(1000)
        /\ b.risk_polarity \in {Number(400), Number(-5000)}
        /\ b.hype_velocity \in {Number(0), Special("text")}}

PRInit ==
    /\ now = 0
    /\ CBIdle
    /\ RLIdle
    /\ WRIdle
    /\ FCIdle
    /\ GPIdle
    /\ FXIdle
    /\ DBIdle
    /\ DLIdle
    /\ MLIdle
    /\ HTIdle
    /\ WTIdle
    /\ REIdle

\* create_or_update_bucket adds a Bucket row
PRAddBucket ==
    /\ ml.buckets < MaxSamples
    /\ ml' = [ml EXCEPT !.buckets = @ + 1]
    /\ UNCHANGED dl
    /\ OPFrame

\* a Label is stored for a bucket that has none
PRAddLabel ==
    /\ ml.labeled < ml.buckets
    /\ ml' = [ml EXCEPT !.labeled = @ + 1]
    /\ UNCHANGED dl
    /\ OPFrame

\* the samples _auto_train_model hands to train_model: the labelled ones,
\* and with fewer than 10 of them one synthetic sample per recent bucket;
\* 0 stands for `return None` (no synthetic data)
AutoTrainSamples(labeled, buckets) ==
    IF labeled < BootstrapSamples
    THEN IF buckets = 0 THEN 0 ELSE labeled + buckets
    ELSE labeled

\* faulty variant of AutoTrains: a model is trained from any sample
AutoTrainsFromAny(labeled, buckets, fits) ==
    AutoTrainSamples(labeled, buckets) > 0 /\ fits

\* _auto_train_model returns a version: train_model(min_samples =
\* max(10, len(X))) has its samples and fitting raises nothing
AutoTrains(labeled, buckets, fits) ==
    LET samples == AutoTrainSamples(labeled, buckets)
        min_samples == IF samples > BootstrapSamples THEN samples
                       ELSE BootstrapSamples
    IN samples > 0 /\ samples >= min_samples /\ fits

\* MLEngine().predict(bucket_data): fits says whether the training raises
\* nothing, prob is what predict_proba returns, raises whether the code
\* after the model is there raises an Exception
PRPredict(bucket, fits, prob, raises) ==
    LET trains == ~ml.active /\ AutoTrains(ml.labeled, ml.buckets, fits)
        result == IF ml.active \/ trains
                  THEN IF raises THEN FlatPrediction
                       ELSE [probability_up |-> prob, source |-> "model"]
                  ELSE IntelligentDefaultPrediction(bucket)
    IN /\ ml' = [ml EXCEPT !.bucket = bucket, !.result = result,
                           !.active = ml.active \/ trains,
                           !.available = ml.active, !.trained = trains]
       /\ UNCHANGED dl
       /\ OPFrame

PRNext ==
    \/ PRAddBucket
    \/ PRAddLabel
    \/ \E bucket \in PredictInputs, fits \in BOOLEAN,
          prob \in ModelProbabilities, raises \in BOOLEAN :
          PRPredict(bucket, fits, prob, raises)

SpecPredict == PRInit /\ [][PRNext]_vars

AdminNames == Services \cup {"mcp_search"}

\* faulty variant of ResetBreaker: only the state is set to CLOSED
ResetBreakerStateOnly(breakers, name) ==
    [breakers EXCEPT ![name].state = "CLOSED"]

\* breaker.state = CircuitBreakerState(state=CircuitState.CLOSED)
ResetBreaker(breakers, name) ==
    [breakers EXCEPT ![name] = CircuitBreakerState]

\* POST /admin/circuit-breakers/{service_name}/reset: an unknown name is
\* answered with HTTPException(404)
CBReset(name) ==
    /\ IF name \in DOMAIN cb_state
       THEN /\ cb_state' = ResetBreaker(cb_state, name)
            /\ ev' = [kind |-> "reset", exc |-> None, pre |-> cb_state[name],
                      start |-> NoBreaker]
       ELSE /\ cb_state' = cb_state
            /\ ev' = [kind |-> "reset", exc |-> "HTTPException",
                      pre |-> NoBreaker, start |-> NoBreaker]
    /\ hist' = InitHist
    /\ UNCHANGED <<now, cb_config, calls>>
    /\ UNCHANGED <<rlVars, wrVars, fcVars, xVars>>

ADNext ==
    \/ CBNext
    \/ \E name \in AdminNames : CBReset(name)

SpecAdmin == CBInit /\ [][ADNext]_vars

(***************************************************************************)
(* Properties of the reset (SpecAdmin).                                    *)
(***************************************************************************)
\* C24: a reset of a registered breaker leaves it CLOSED with both counters
\* 0 and no next_attempt_time, so that a call that follows is admitted,
\* and leaves the other breakers as they are; a reset of an unknown name
\* is rejected and creates no breaker.
C24_ResetClosesNamedBreaker ==
    [][\A name \in AdminNames :
          CBReset(name) =>
              /\ DOMAIN cb_state' = DOMAIN cb_state
              /\ \A other \in DOMAIN cb_state \ {name} :
                     cb_state'[other] = cb_state[other]
              /\ IF name \in DOMAIN cb_state
                 THEN /\ cb_state'[name].state = "CLOSED"
                      /\ cb_state'[name].failure_count = 0
                      /\ cb_state'[name].success_count = 0
                      /\ cb_state'[name].next_attempt_time = NoTime
                      /\ ~Admit(cb_state'[name], now').rejected
                      /\ ev'.exc = None
                 ELSE ev'.exc = "HTTPException"]_vars

\* C24 witness: an OPEN breaker whose timeout has not elapsed has been
\* reset while a call admitted before it opened is in flight
C24_Witness ==
    /\ ev.kind = "reset"
    /\ ev.pre.state = "OPEN"
    /\ ev.pre.next_attempt_time > now
    /\ \E c \in Calls : Running(c)
    /\ cb_state[calls[1].svc] = CircuitBreakerState

(***************************************************************************)
(* Specification SpecHeat: the heats of aggregate_token_bucket are         *)
(* calculated for an article list.                                         *)
(***************************************************************************)
HTInit ==
    /\ now = 0
    /\ CBIdle
    /\ RLIdle
    /\ WRIdle
    /\ FCIdle
    /\ GPIdle
    /\ FXIdle
    /\ DBIdle
    /\ DLIdle
    /\ MLIdle
    /\ WTIdle
    /\ REIdle
    /\ \E arts \in HeatLists : ht = [articles |-> arts, heats |-> NoHeats]

\* narrative_heat = self._calculate_narrative_heat(articles);
\* positive_heat, negative_heat = self._calculate_sentiment_heat(articles)
HTCalculate ==
    /\ ~ht.heats.done
    /\ ht' = [ht EXCEPT !.heats =
                 [narrative_heat |-> NarrativeHeat(ht.articles),
                  positive_heat |-> PositiveHeat(ht.articles),
                  negative_heat |-> NegativeHeat(ht.articles),
                  done |-> TRUE]]
    /\ UNCHANGED <<now, cbVars, rlVars, wrVars, fcVars, gpVars, fxVars,
                   dbVars, dl, ml, wt, reg>>

HTNext == HTCalculate

SpecHeat == HTInit /\ [][HTNext]_vars

(***************************************************************************)
(* Properties of the heats (SpecHeat).  Sums are in ten-thousandths, heats *)
(* in thousandths.                                                         *)
(***************************************************************************)
SumOfContributions(arts) ==
    SumInt(arts, [a \in arts |-> a.sentiment_score * a.final_weight])

SumOfPositive(arts) ==
    SumOfContributions({a \in arts : a.sentiment_score * a.final_weight > 0})

SumOfNegative(arts) ==
    -SumOfContributions({a \in arts : a.sentiment_score * a.final_weight <= 0})

\* the article of the scenario: sentiment 0.6, weight 0.8
ScenarioList == {a \in HeatArticles : a.url = "a1"}

\* the heats of the scenario are 0.48, 0.48 and 0
ScenarioHeats ==
    ht.articles = ScenarioList =>
        /\ ht.heats.narrative_heat = 480
        /\ ht.heats.positive_heat = 480
        /\ ht.heats.negative_heat = 0

\* h thousandths is s ten-thousandths rounded to 3 decimals
Rounded(h, s) == 2 * Abs(10 * h - s) <= 10

\* C25 (as claimed): narrative_heat is the sum of the contributions,
\* positive_heat the sum of those > 0, negative_heat the sum of the
\* absolute values of those <= 0, both are >= 0, narrative_heat is
\* positive_heat - negative_heat, and the scenario gives 0.48, 0.48, 0.
C25_HeatsAreSums ==
    ht.heats.done =>
        /\ 10 * ht.heats.narrative_heat = SumOfContributions(ht.articles)
        /\ 10 * ht.heats.positive_heat = SumOfPositive(ht.articles)
        /\ 10 * ht.heats.negative_heat = SumOfNegative(ht.articles)
        /\ ht.heats.positive_heat >= 0
        /\ ht.heats.negative_heat >= 0
        /\ ht.heats.narrative_heat
              = ht.heats.positive_heat - ht.heats.negative_heat
        /\ ScenarioHeats

\* C25 (amended): each heat is its sum rounded to 3 decimals, positive_heat
\* and negative_heat are >= 0, narrative_heat differs from
\* positive_heat - negative_heat by at most 0.001, and the scenario gives
\* 0.48, 0.48, 0.
C25_HeatsAreRoundedSums ==
    ht.heats.done =>
        /\ Rounded(ht.heats.narrative_heat, SumOfContributions(ht.articles))
        /\ Rounded(ht.heats.positive_heat, SumOfPositive(ht.articles))
        /\ Rounded(ht.heats.negative_heat, SumOfNegative(ht.articles))
        /\ ht.heats.positive_heat >= 0
        /\ ht.heats.negative_heat >= 0
        /\ Abs(ht.heats.narrative_heat
                  - (ht.heats.positive_heat - ht.heats.negative_heat)) <= 1
        /\ ScenarioHeats

\* C25 witness: the heats of a list with a positive and a negative
\* contribution are calculated, and the rounded narrative_heat is not the
\* difference of the rounded parts
C25_Witness ==
    /\ ht.heats.done
    /\ ht.heats.positive_heat > 0
    /\ ht.heats.negative_heat > 0
    /\ ht.heats.narrative_heat
          # ht.heats.positive_heat - ht.heats.negative_heat

(***************************************************************************)
(* Specification SpecWaiters: tasks of the one event loop call             *)
(* wait_for_token on the same limiter, again and again.  acquire has no    *)
(* suspension point, so a poll is one step.  time.time() enters acquire    *)
(* only as now - last_refill, so the clock is read from the last refill:   *)
(* a poll sets it back to 0, and it stops when the bucket would be full    *)
(* (more time changes nothing then).                                       *)
(***************************************************************************)
WTInit ==
    /\ now = 0
    /\ \E rate \in 1..MaxRate, burst \in 1..MaxBurst :
          rl = NewRateLimiter(rate, burst)
    /\ rlh = InitRLHist
    /\ CBIdle
    /\ WRIdle
    /\ FCIdle
    /\ GPIdle
    /\ FXIdle
    /\ DBIdle
    /\ DLIdle
    /\ MLIdle
    /\ HTIdle
    /\ WTIdle
    /\ REIdle

WTFrame ==
    UNCHANGED <<cbVars, rlh, wrVars, fcVars, gpVars, fxVars, dbVars, dl, ml,
                ht, reg>>

\* the tokens acquire finds after its refill
Available == Min(rl.burst * TicksPerSecond, rl.tokens + now * rl.rate)

\* `await self.acquire(tokens)` by task w, and the branch of the while loop
WTPoll(w, n) ==
    LET r == Acquire(rl, n, now)
    IN /\ rl' = [r.limiter EXCEPT !.last_refill = 0]
       /\ now' = 0
       /\ wt' = [tasks |-> [wt.tasks EXCEPT ![w] =
                    IF r.ok THEN [pc |-> "returned", n |-> n, got |-> n]
                    ELSE [pc |-> "sleep", n |-> n, got |-> 0]],
                 poll |-> [by |-> w, n |-> n, ok |-> r.ok,
                           found |-> Available, left |-> r.limiter.tokens]]

\* task w calls wait_for_token(n): the first poll runs at once
WTCall(w, n) ==
    /\ wt.tasks[w].pc \in {"idle", "returned"}
    /\ n <= rl.burst
    /\ WTPoll(w, n)
    /\ WTFrame

\* asyncio.sleep(0.1) of task w is over: the next poll
WTWake(w) ==
    /\ wt.tasks[w].pc = "sleep"
    /\ WTPoll(w, wt.tasks[w].n)
    /\ WTFrame

\* time advances
WTTick ==
    /\ Available < rl.burst * TicksPerSecond
    /\ now' = now + 1
    /\ UNCHANGED <<rl, wt>>
    /\ WTFrame

WTNext ==
    \/ \E w \in Waiters, n \in 1..MaxBurst : WTCall(w, n)
    \/ \E w \in Waiters : WTWake(w)
    \/ WTTick

\* time advances, and the event loop resumes every task whose sleep is over
WTFairness ==
    /\ WF_vars(WTTick)
    /\ \A w \in Waiters : WF_vars(WTWake(w))

SpecWaiters == WTInit /\ [][WTNext]_vars /\ WTFairness

(***************************************************************************)
(* Properties of wait_for_token (SpecWaiters).                             *)
(***************************************************************************)
\* a poll that is granted consumes exactly n tokens and ends the call, a
\* poll that is refused consumes none and leaves the task asleep
PollConsumesExactly ==
    wt.poll.by # None =>
        IF wt.poll.ok
        THEN /\ wt.poll.left = wt.poll.found - wt.poll.n * TicksPerSecond
             /\ wt.tasks[wt.poll.by] =
                   [pc |-> "returned", n |-> wt.poll.n, got |-> wt.poll.n]
        ELSE /\ wt.poll.left = wt.poll.found
             /\ wt.tasks[wt.poll.by] =
                   [pc |-> "sleep", n |-> wt.poll.n, got |-> 0]

Waiting(w) == wt.tasks[w].pc = "sleep"

Returned(w) == wt.tasks[w].pc = "returned"

\* a task that is the only one to call wait_for_token returns
ReturnsWhenAlone ==
    \A w \in Waiters :
        [](\A v \in Waiters \ {w} : wt.tasks[v].pc = "idle")
            => (Waiting(w) ~> Returned(w))

\* C27: every wait_for_token(n) with n <= burst returns, having consumed
\* exactly n tokens, also when several tasks poll the same bucket (no task
\* waits forever), and a refused poll consumes no tokens.
C27_EveryWaiterReturns ==
    /\ []PollConsumesExactly
    /\ \A w \in Waiters : Waiting(w) ~> Returned(w)

(***************************************************************************)
(* Specification SpecRegistry: with_rate_limit is called with the service  *)
(* names, one call after the other.  The registered limiters start full,   *)
(* as at import, or drained, as earlier calls leave them.                  *)
(***************************************************************************)
REInit ==
    /\ now = 0
    /\ CBIdle
    /\ RLIdle
    /\ WRIdle
    /\ FCIdle
    /\ GPIdle
    /\ FXIdle
    /\ DBIdle
    /\ DLIdle
    /\ MLIdle
    /\ HTIdle
    /\ WTIdle
    /\ \E drained \in SUBSET RegisteredNames :
          reg = [limiters |-> [s \in RegisteredNames |->
                                  IF s \in drained
                                  THEN [RateLimiters[s] EXCEPT !.tokens = 0]
                                  ELSE RateLimiters[s]],
                 call |-> NoRateCall, calls |-> 0, h |-> InitREHist]

REFrame ==
    UNCHANGED <<cbVars, rlVars, wrVars, fcVars, gpVars, fxVars, dbVars, dl,
                ml, ht, wt>>

\* one poll of wait_for_token() by the call of `name` on limiter l, which is
\* the registry's when the name is registered and the call's own otherwise
REPoll(name, l) ==
    LET r == Acquire(l, 1, now)
    IN [limiters |-> IF name \in DOMAIN reg.limiters
                     THEN [reg.limiters EXCEPT ![name] = r.limiter]
                     ELSE reg.limiters,
        call |-> IF r.ok THEN NoRateCall
                 ELSE [pc |-> "sleep", name |-> name,
                       limiter |-> IF name \in DOMAIN reg.limiters
                                   THEN NoLimiter ELSE r.limiter],
        left |-> r.limiter]

\* with_rate_limit(service_name, func): get_rate_limiter and the first poll
REWithRateLimit(name) ==
    /\ reg.call.pc = "idle"
    /\ reg.calls < MaxRateCalls
    /\ LET l == GetRateLimiter(reg.limiters, name, now)
           x == REPoll(name, l)
       IN reg' = [limiters |-> x.limiters, call |-> x.call,
                  calls |-> reg.calls + 1,
                  h |-> [left |-> [reg.h.left EXCEPT ![name] = x.left],
                         found |-> l, before |-> reg.h.left[name],
                         name |-> name]]
    /\ UNCHANGED now
    /\ REFrame

\* asyncio.sleep(0.1) is over: the call polls its limiter again
REWake ==
    /\ reg.call.pc = "sleep"
    /\ LET name == reg.call.name
           l == IF name \in DOMAIN reg.limiters
                THEN reg.limiters[name] ELSE reg.call.limiter
           x == REPoll(name, l)
       IN reg' = [reg EXCEPT !.limiters = x.limiters, !.call = x.call,
                             !.h.left[name] = x.left]
    /\ UNCHANGED now
    /\ REFrame

RETick ==
    /\ now < REMaxTime
    /\ now' = now + 1
    /\ UNCHANGED reg
    /\ REFrame

RENext ==
    \/ \E name \in ServiceNames : REWithRateLimit(name)
    \/ REWake
    \/ RETick

SpecRegistry == REInit /\ [][RENext]_vars

(***************************************************************************)
(* Properties of the limiter registry (SpecRegistry).                      *)
(***************************************************************************)
\* C28: for every service name, the limiter a with_rate_limit call draws
\* from is the one the call before with the same name drew from, as that
\* call left it: the tokens it consumed are missing.
C28_OneBucketPerName ==
    (reg.h.name # None /\ reg.h.before # NoLimiter) =>
        reg.h.found = reg.h.before

\* for the registered names the limiter is the one the call before left
OneBucketPerRegisteredName ==
    (reg.h.name \in RegisteredNames /\ reg.h.before # NoLimiter) =>
        reg.h.found = reg.h.before

====
